---- MODULE Spec2Model ----
(***************************************************************************)
(* Track engines of the sequencer: NoteTrackEngine and CurveTrackEngine.   *)
(* One track (or a leader and a follower track) is driven by the clock's   *)
(* tick() calls, interleaved with reset(), restart() and changePattern().  *)
(* Engine state is a record per track; every engine method is an operator  *)
(* from the record (and the method's inputs) to the record after the call. *)
(***************************************************************************)
EXTENDS Integers, Sequences, FiniteSets, TLC

VARIABLES
    now,        \* the tick the clock delivers next
    turn,       \* index of the track whose tick() runs next in this pass
    budget,     \* ticks and control operations still allowed in this behaviour
    mode,       \* mode[t]: "Note", "Curve" or "None" (no track)
    link,       \* link[t]: index of the track t follows, or -1
    playMode,   \* playMode[t]: "Aligned" or "Free"
    play,       \* play[t]: the track's mute and fill state
    eng,        \* eng[t]: the engine's fields, and what its last tick() did
    obs,        \* the last operation: its name, track and tick, and for a control
                \* operation the engine before it (observation, not engine state)
    transport,  \* the engine's running and recording flags, the record mode
    midiCvTrack \* the settings of a MidiCvTrack

vars == <<now, turn, budget, mode, link, playMode, play, eng, obs, transport, midiCvTrack>>

\* ---------------------------------------------------------------- bounds

\* ticks delivered in one behaviour
MaxTicks == 5
\* control operations in one behaviour
MaxOps == 2
\* patterns of a track (CONFIG_PATTERN_COUNT of the firmware, scaled down)
PatternCount == 2

\* ------------------------------------------------------- program constants

CONFIG_PPQN == 192
CONFIG_SEQUENCE_PPQN == 48
\* ticks of one measure (4/4): Engine::measureDivisor()
MeasureDivisor == 768
\* SortedQueue<Gate, 16, GateCompare>
QueueCapacity == 16
\* NoteSequence::GateOffset::Max
GateOffsetMax == 7
\* NoteSequence::Length::Range, ::Max = Range - 1
LengthRange == 8
\* Range of the 3 bit probabilities (gate, retrigger, length and note variation)
ProbabilityRange == 8
\* NoteSequence::Note range (7 bit signed)
NoteMin == -64
NoteMax == 63

Tracks == 0..1

Min(a, b) == IF a < b THEN a ELSE b
Max(a, b) == IF a > b THEN a ELSE b
clamp(x, lo, hi) == Max(lo, Min(x, hi))

\* ------------------------------------------------------------------ uint32_t

\* A tick is a uint32_t. It is kept as the number it is below 2^31 and as that
\* number less 2^32 from 2^31 on, so that sums and differences are the plain
\* ones across the wrap from 2^32 - 1 to 0; order, quotient and remainder are
\* those of the unsigned value.
U32Less(a, b) == IF (a >= 0) = (b >= 0) THEN a < b ELSE a >= 0

\* 2^32 % m
U32Rem(m) == (4 * ((2^30) % m)) % m

U32Mod(v, m) == IF v >= 0 THEN v % m ELSE ((v % m) + U32Rem(m)) % m

\* the quotient of v + 2^32 for the upper half, 2^32 taken as 4 * 2^30
U32Div(v, m) ==
    IF v >= 0 THEN v \div m
    ELSE 4 * ((2^30) \div m) + (4 * ((2^30) % m)) \div m + ((U32Rem(m) + v) \div m)

\* -------------------------------------------------------------- SortedQueue

\* position of the first entry due after tick, or Len(q) + 1
InsertPos(q, tick) ==
    IF \E i \in 1..Len(q) : U32Less(tick, q[i].tick)
    THEN CHOOSE i \in 1..Len(q) :
            /\ U32Less(tick, q[i].tick)
            /\ \A j \in 1..(i - 1) : ~U32Less(tick, q[j].tick)
    ELSE Len(q) + 1

InsertSorted(q, e) ==
    LET p == InsertPos(q, e.tick)
    IN SubSeq(q, 1, p - 1) \o <<e>> \o SubSeq(q, p, Len(q))

\* QueuePush without the capacity check
QueuePushGrows(q, e) == InsertSorted(q, e)

\* SortedQueue::push: sorted insert; a full queue gives up its oldest entry
QueuePush(q, e) ==
    IF Len(q) < QueueCapacity THEN InsertSorted(q, e)
    ELSE InsertSorted(Tail(q), e)

\* pushReplace keeping the entry that holds the tick
QueuePushKeep(q, e) ==
    IF \E i \in 1..Len(q) : q[i].tick = e.tick THEN q ELSE QueuePush(q, e)

\* SortedQueue::pushReplace: an entry with the same tick is overwritten
QueuePushReplace(q, e) ==
    IF \E i \in 1..Len(q) : q[i].tick = e.tick
    THEN LET i == CHOOSE k \in 1..Len(q) : q[k].tick = e.tick
         IN [q EXCEPT ![i] = e]
    ELSE QueuePush(q, e)

\* -------------------------------------------------------------------- Groove

\* Groove::swing: the second base note of each pair starts at amount percent
Swing(tick, base, amount) ==
    LET period == 2 * base
        offset == U32Mod(tick, period)
        start == tick - offset
        mid == (period * amount) \div 100
    IN IF offset < base
       THEN start + (offset * mid) \div base
       ELSE start + mid + ((offset - base) * (period - mid)) \div base

\* ------------------------------------------------------------- SequenceState

SequenceStateReset == [step |-> -1, prevStep |-> -1, iteration |-> 0]

\* SequenceState::advanceFree (run modes Forward and Backward)
advanceFree(s, runMode, firstStep, lastStep) ==
    LET cur == clamp(s.step, firstStep, lastStep)
    IN IF s.step = -1
       THEN [s EXCEPT !.prevStep = s.step,
                      !.step = IF runMode = "Forward" THEN firstStep ELSE lastStep]
       ELSE IF runMode = "Forward"
            THEN IF cur >= lastStep
                 THEN [step |-> firstStep, prevStep |-> s.step, iteration |-> s.iteration + 1]
                 ELSE [s EXCEPT !.prevStep = s.step, !.step = cur + 1]
            ELSE IF cur <= firstStep
                 THEN [step |-> lastStep, prevStep |-> s.step, iteration |-> s.iteration + 1]
                 ELSE [s EXCEPT !.prevStep = s.step, !.step = cur - 1]

\* SequenceState::advanceAligned (run modes Forward and Backward)
advanceAligned(s, absoluteStep, runMode, firstStep, lastStep) ==
    LET stepCount == lastStep - firstStep + 1
    IN [step |-> IF runMode = "Forward"
                 THEN firstStep + (absoluteStep % stepCount)
                 ELSE lastStep - (absoluteStep % stepCount),
        prevStep |-> s.step,
        iteration |-> absoluteStep \div stepCount]

\* SequenceUtils::rotateStep
rotateStep(step, firstStep, lastStep, rotate) ==
    firstStep + ((step - firstStep + rotate) % (lastStep - firstStep + 1))

\* ------------------------------------------------------------ project data

\* ticks per step: sequence.divisor() * (CONFIG_PPQN / CONFIG_SEQUENCE_PPQN)
StepTicks(sequenceDivisor) == sequenceDivisor * (CONFIG_PPQN \div CONFIG_SEQUENCE_PPQN)

\* The sequence of track t in pattern p: even patterns run forward over three
\* steps, one step per sixteenth of the sequence clock; odd patterns run
\* backward over a single step, four times slower, and reset every measure;
\* pattern 3 (and 7, 11, ...) runs forward over four steps, six times slower.
Sequence(t, p) ==
    IF p % 2 = 0
    THEN [divisor |-> 1, resetMeasure |-> 0, runMode |-> "Forward",
          firstStep |-> t, lastStep |-> t + 2]
    ELSE IF p % 4 = 1
    THEN [divisor |-> 4, resetMeasure |-> 1, runMode |-> "Backward",
          firstStep |-> 1, lastStep |-> 1]
    ELSE [divisor |-> 6, resetMeasure |-> 0, runMode |-> "Forward",
          firstStep |-> 0, lastStep |-> 3]

Off == [kind |-> "Off", base |-> 1, offset |-> 0]
Loop(base, offset) == [kind |-> "Loop", base |-> base, offset |-> offset]

\* a step with its gate on, full probabilities and no variation
PlainStep ==
    [gate |-> TRUE, gateProbability |-> ProbabilityRange - 1, gateOffset |-> 0,
     retrigger |-> 0, retriggerProbability |-> ProbabilityRange - 1,
     length |-> 3, lengthVariationRange |-> 0, lengthVariationProbability |-> 0,
     note |-> 0, noteVariationRange |-> 0, noteVariationProbability |-> 0,
     slide |-> FALSE, condition |-> Off]

\* NoteTrack settings read by the engine
PlainNoteTrack ==
    [fillMode |-> "Gates", cvUpdateMode |-> "Gate", fillAmount |-> 100,
     octave |-> 0, transpose |-> 0, rotate |-> 0, swing |-> 50, slideTime |-> 50,
     gateProbabilityBias |-> 0, retriggerProbabilityBias |-> 0,
     lengthBias |-> 0, noteProbabilityBias |-> 0]

\* the rng draws of one triggerStep, each already reduced to its range
PlainDraws ==
    [fill |-> 0, gate |-> 0, retrigger |-> 0, lengthProbability |-> ProbabilityRange - 1,
     lengthOffset |-> 0, noteProbability |-> ProbabilityRange - 1, noteOffset |-> 0]

\* Scale (chromatic, 12 notes per octave): volts in millivolts
NotesPerOctave == 12
noteToVolts(note) == (note * 1000) \div NotesPerOctave

\* ---------------------------------------------------------- NoteTrackEngine

Abs(x) == IF x < 0 THEN -x ELSE x

\* evaluate if step gate is active
evalStepGate(step, probabilityBias, draw) ==
    LET probability == clamp(step.gateProbability + probabilityBias, -1, ProbabilityRange - 1)
    IN step.gate /\ draw <= probability

\* evalStepCondition with conditions Off and Pre writing prevCondition too
evalStepConditionWrites(step, iteration, fill, prevCondition) ==
    LET c == step.condition
        set(v) == [result |-> v, prevCondition |-> v]
    IN CASE c.kind = "Off"      -> set(TRUE)
         [] c.kind = "Fill"     -> set(fill)
         [] c.kind = "NotFill"  -> set(~fill)
         [] c.kind = "Pre"      -> set(prevCondition)
         [] c.kind = "NotPre"   -> set(~prevCondition)
         [] c.kind = "First"    -> set(iteration = 0)
         [] c.kind = "NotFirst" -> set(iteration # 0)
         [] c.kind = "Loop"     -> set(iteration % c.base = c.offset)
         [] OTHER               -> [result |-> TRUE, prevCondition |-> prevCondition]

\* evaluate step condition: the result and prevCondition after the call
evalStepCondition(step, iteration, fill, prevCondition) ==
    LET c == step.condition
        set(v) == [result |-> v, prevCondition |-> v]
    IN CASE c.kind = "Off"      -> [result |-> TRUE, prevCondition |-> prevCondition]
         [] c.kind = "Fill"     -> set(fill)
         [] c.kind = "NotFill"  -> set(~fill)
         [] c.kind = "Pre"      -> [result |-> prevCondition, prevCondition |-> prevCondition]
         [] c.kind = "NotPre"   -> [result |-> ~prevCondition, prevCondition |-> prevCondition]
         [] c.kind = "First"    -> set(iteration = 0)
         [] c.kind = "NotFirst" -> set(iteration # 0)
         [] c.kind = "Loop"     -> set(iteration % c.base = c.offset)
         [] OTHER               -> [result |-> TRUE, prevCondition |-> prevCondition]

\* evaluate step retrigger count
evalStepRetrigger(step, probabilityBias, draw) ==
    LET probability == clamp(step.retriggerProbability + probabilityBias, -1, ProbabilityRange - 1)
    IN IF draw <= probability THEN step.retrigger + 1 ELSE 1

\* evalStepLength without the clamp of the varied length
evalStepLengthUnclamped(step, lengthBias, drawProbability, drawOffset) ==
    LET length == clamp(step.length + lengthBias, 0, LengthRange - 1) + 1
        range == step.lengthVariationRange
        offset == IF range = 0 THEN 0 ELSE drawOffset % (Abs(range) + 1)
        signed == IF range < 0 THEN -offset ELSE offset
    IN IF drawProbability <= step.lengthVariationProbability
       THEN length + signed
       ELSE length

\* evaluate step length
evalStepLength(step, lengthBias, drawProbability, drawOffset) ==
    LET length == clamp(step.length + lengthBias, 0, LengthRange - 1) + 1
        range == step.lengthVariationRange
        offset == IF range = 0 THEN 0 ELSE drawOffset % (Abs(range) + 1)
        signed == IF range < 0 THEN -offset ELSE offset
    IN IF drawProbability <= step.lengthVariationProbability
       THEN clamp(length + signed, 0, LengthRange)
       ELSE length

\* evaluate transposition
evalTransposition(octave, transpose) == octave * NotesPerOctave + transpose

\* evaluate note voltage (chromatic scale)
evalStepNote(step, probabilityBias, rootNote, octave, transpose, useVariation, drawProbability, drawOffset) ==
    LET note == step.note + rootNote + evalTransposition(octave, transpose)
        probability == clamp(step.noteVariationProbability + probabilityBias, -1, ProbabilityRange - 1)
        range == step.noteVariationRange
        offset == IF range = 0 THEN 0 ELSE drawOffset % (Abs(range) + 1)
        signed == IF range < 0 THEN -offset ELSE offset
    IN IF useVariation /\ drawProbability <= probability
       THEN noteToVolts(clamp(note + signed, NoteMin, NoteMax))
       ELSE noteToVolts(note)

\* uint32_t quotient 2^32 / m, for m a power of two
U32Quotient(m) == (2^30 \div m) * 4

\* uint32_t gateOffset = (divisor * step.gateOffset()) / (GateOffset::Max + 1):
\* a negative offset is converted to uint32_t before the product is divided
gateOffsetTicks(divisor, stepGateOffset) ==
    IF stepGateOffset >= 0
    THEN (divisor * stepGateOffset) \div (GateOffsetMax + 1)
    ELSE U32Quotient(GateOffsetMax + 1)
         - ((divisor * (-stepGateOffset) + GateOffsetMax) \div (GateOffsetMax + 1))

\* relativeTickOf without the reset measure
relativeTickNoMeasure(tick, resetDivisor) == tick

\* uint32_t relativeTick = resetDivisor == 0 ? tick : tick % resetDivisor
relativeTickOf(tick, resetDivisor) ==
    IF resetDivisor = 0 THEN tick ELSE U32Mod(tick, resetDivisor)

\* NoteTrackEngine::applySwing, CurveTrackEngine::applySwing
applySwing(tick, swing) == Swing(tick, CONFIG_PPQN \div 4, swing)

\* NoteTrackEngine::changePattern, CurveTrackEngine::changePattern
changePattern(e, pattern) ==
    [e EXCEPT !.pattern = pattern,
              !.sequence = pattern,
              !.fillSequence = Min(pattern + 1, PatternCount - 1)]

NoLinkData == [divisor |-> 0, relativeTick |-> 0, valid |-> FALSE]

\* Trace of an engine's last tick(), kept beside its fields: whether the call
\* ran reset(), advanced the cursor, ran triggerStep; the gate values it
\* dequeued (sent), and the gate value dequeued last before it (lastSent,
\* a sequence of at most one value, empty after a reset).
NoTrace == [didReset |-> FALSE, didAdvance |-> FALSE, didTrigger |-> FALSE,
            didRecord |-> FALSE, sent |-> <<>>, lastSent |-> <<>>, wrote |-> <<>>,
            sentTicks |-> <<>>, cvSentTicks |-> <<>>]

\* the trace at the start of a tick() call
beginTick(e) ==
    [e EXCEPT !.didReset = FALSE, !.didAdvance = FALSE, !.didTrigger = FALSE,
              !.didRecord = FALSE, !.sent = <<>>, !.sentTicks = <<>>, !.cvSentTicks = <<>>,
              !.lastSent = IF Len(e.sent) > 0 THEN <<e.sent[Len(e.sent)]>> ELSE @]

\* NoteReset without the clearing of the two queues
NoteResetKeepsQueues(e) ==
    [e EXCEPT !.freeRelativeTick = 0, !.sequenceState = SequenceStateReset,
              !.currentStep = -1, !.prevCondition = FALSE, !.activity = FALSE,
              !.gateOutput = FALSE, !.cvOutput = 0, !.cvOutputTarget = 0,
              !.slideActive = FALSE, !.recordHistory = <<>>,
              !.didReset = TRUE, !.sent = <<>>, !.lastSent = <<>>,
              !.sentTicks = <<>>, !.cvSentTicks = <<>>]

\* NoteTrackEngine::reset
NoteReset(e) ==
    changePattern(
        [e EXCEPT !.freeRelativeTick = 0,
                  !.sequenceState = SequenceStateReset,
                  !.currentStep = -1,
                  !.prevCondition = FALSE,
                  !.activity = FALSE,
                  !.gateOutput = FALSE,
                  !.cvOutput = 0,
                  !.cvOutputTarget = 0,
                  !.slideActive = FALSE,
                  !.gateQueue = <<>>,
                  !.cvQueue = <<>>,
                  !.recordHistory = <<>>,
                  !.didReset = TRUE, !.sent = <<>>, !.lastSent = <<>>,
                  !.sentTicks = <<>>, !.cvSentTicks = <<>>],
        e.pattern)

\* NoteRestart that also drops the pending gate events
NoteRestartClearsGates(e) ==
    [e EXCEPT !.freeRelativeTick = 0, !.sequenceState = SequenceStateReset,
              !.currentStep = -1, !.gateQueue = <<>>]

\* NoteTrackEngine::restart
NoteRestart(e) ==
    [e EXCEPT !.freeRelativeTick = 0,
              !.sequenceState = SequenceStateReset,
              !.currentStep = -1]

\* the engine as its constructor leaves it (the constructor calls reset())
NoteEngine(pattern) ==
    NoteReset([freeRelativeTick |-> 0, sequenceState |-> SequenceStateReset,
               currentStep |-> -1, prevCondition |-> FALSE, activity |-> FALSE,
               gateOutput |-> FALSE, cvOutput |-> 0, cvOutputTarget |-> 0,
               slideActive |-> FALSE, gateQueue |-> <<>>, cvQueue |-> <<>>,
               recordHistory |-> <<>>, pattern |-> pattern, sequence |-> pattern,
               fillSequence |-> pattern, linkData |-> NoLinkData,
               monitorStepIndex |-> -1, currentRecordStep |-> -1,
               monitorOverrideActive |-> FALSE] @@ NoTrace)

\* retriggerGates with retriggerOffset < stepLength as the loop condition
RECURSIVE retriggerGatesStrict(_, _, _, _, _, _, _)
retriggerGatesStrict(q, count, retriggerOffset, start, retriggerLength, stepLength, swing) ==
    IF count > 0 /\ retriggerOffset < stepLength
    THEN retriggerGatesStrict(
            QueuePushReplace(
                QueuePushReplace(q, [tick |-> applySwing(start + retriggerOffset, swing),
                                     gate |-> TRUE]),
                [tick |-> applySwing(start + retriggerOffset + retriggerLength \div 2, swing),
                 gate |-> FALSE]),
            count - 1, retriggerOffset + retriggerLength, start, retriggerLength,
            stepLength, swing)
    ELSE q

\* the retrigger loop of triggerStep: count pulses of retriggerLength, the
\* pulses whose offset exceeds stepLength dropped
RECURSIVE retriggerGates(_, _, _, _, _, _, _)
retriggerGates(q, count, retriggerOffset, start, retriggerLength, stepLength, swing) ==
    IF count > 0 /\ retriggerOffset <= stepLength
    THEN retriggerGates(
            QueuePushReplace(
                QueuePushReplace(q, [tick |-> applySwing(start + retriggerOffset, swing),
                                     gate |-> TRUE]),
                [tick |-> applySwing(start + retriggerOffset + retriggerLength \div 2, swing),
                 gate |-> FALSE]),
            count - 1, retriggerOffset + retriggerLength, start, retriggerLength,
            stepLength, swing)
    ELSE q

\* stepGates with plain push in place of pushReplace
stepGatesPush(q, tick, divisor, gateOffset, stepLength, stepRetrigger, swing) ==
    QueuePush(
        QueuePush(q, [tick |-> applySwing(tick + gateOffset, swing), gate |-> TRUE]),
        [tick |-> applySwing(tick + gateOffset + stepLength, swing), gate |-> FALSE])

\* the gate events triggerStep queues for a step whose gate passed
stepGates(q, tick, divisor, gateOffset, stepLength, stepRetrigger, swing) ==
    IF stepRetrigger > 1
    THEN retriggerGates(q, stepRetrigger, 0, tick + gateOffset,
                        divisor \div stepRetrigger, stepLength, swing)
    ELSE QueuePushReplace(
            QueuePushReplace(q, [tick |-> applySwing(tick + gateOffset, swing), gate |-> TRUE]),
            [tick |-> applySwing(tick + gateOffset + stepLength, swing), gate |-> FALSE])

\* the CV event triggerStep queues
stepCv(q, event) == QueuePush(q, event)

\* gateTest without the fill gates
gateTestNoFill(step, probabilityBias, draw, useFillGates) ==
    evalStepGate(step, probabilityBias, draw)

\* bool stepGate = evalStepGate(step, gateProbabilityBias) || useFillGates
gateTest(step, probabilityBias, draw, useFillGates) ==
    evalStepGate(step, probabilityBias, draw) \/ useFillGates

\* the step condition evaluated whatever the gate test said
stepConditionAlways(stepGate, step, iteration, fill, prevCondition) ==
    LET cond == evalStepCondition(step, iteration, fill, prevCondition)
    IN [result |-> stepGate /\ cond.result, prevCondition |-> cond.prevCondition]

\* if (stepGate) { stepGate = evalStepCondition(...); } of triggerStep: the
\* gate after the condition and prevCondition after it
stepCondition(stepGate, step, iteration, fill, prevCondition) ==
    IF stepGate
    THEN evalStepCondition(step, iteration, fill, prevCondition)
    ELSE [result |-> FALSE, prevCondition |-> prevCondition]

\* NoteTrackEngine::triggerStep. in: the track's settings (in.track), its mute
\* and fill state, the step data read (in.step) and the rng draws (in.draws)
NoteTriggerStep(e, t, tick, divisor, in) ==
    LET trk == in.track
        step == in.step
        d == in.draws
        fillStep == in.fill /\ d.fill < trk.fillAmount
        useFillGates == fillStep /\ trk.fillMode = "Gates"
        useFillCondition == fillStep /\ trk.fillMode = "Condition"
        sequence == Sequence(t, e.sequence)
        currentStep == rotateStep(e.sequenceState.step, sequence.firstStep,
                                  sequence.lastStep, trk.rotate)
        gateOffset == gateOffsetTicks(divisor, step.gateOffset)
        gate1 == gateTest(step, trk.gateProbabilityBias, d.gate, useFillGates)
        cond == stepCondition(gate1, step, e.sequenceState.iteration, useFillCondition,
                              e.prevCondition)
        stepGate == cond.result
        stepLength == (divisor * evalStepLength(step, trk.lengthBias, d.lengthProbability,
                                                d.lengthOffset)) \div LengthRange
        stepRetrigger == evalStepRetrigger(step, trk.retriggerProbabilityBias, d.retrigger)
        cv == evalStepNote(step, trk.noteProbabilityBias, 0, trk.octave, trk.transpose,
                           TRUE, d.noteProbability, d.noteOffset)
    IN [e EXCEPT
          !.didTrigger = TRUE,
          !.currentStep = currentStep,
          !.prevCondition = cond.prevCondition,
          !.gateQueue = IF stepGate
                        THEN stepGates(@, tick, divisor, gateOffset, stepLength,
                                       stepRetrigger, trk.swing)
                        ELSE @,
          !.cvQueue = IF stepGate \/ trk.cvUpdateMode = "Always"
                      THEN stepCv(@, [tick |-> applySwing(tick + gateOffset, trk.swing),
                                      cv |-> cv, slide |-> step.slide])
                      ELSE @]

\* dueCount with tick > front().tick as the loop condition
dueCountStrict(q, tick) ==
    CHOOSE n \in 0..Len(q) :
        /\ \A i \in 1..n : U32Less(q[i].tick, tick)
        /\ (n = Len(q) \/ ~U32Less(q[n + 1].tick, tick))

\* number of entries the drain loop of tick() pops: the entries at the front
\* of the queue that are due
dueCount(q, tick) ==
    CHOOSE n \in 0..Len(q) :
        /\ \A i \in 1..n : ~U32Less(tick, q[i].tick)
        /\ (n = Len(q) \/ U32Less(tick, q[n + 1].tick))

\* gateOutputOf without the fill override
gateOutputNoFill(mute, fill, activity) == ~mute /\ activity

\* gateOutput after a dequeued gate event
gateOutputOf(mute, fill, activity) == (~mute \/ fill) /\ activity

\* the gate queue loop of NoteTrackEngine::tick and CurveTrackEngine::tick
drainGateQueue(e, tick, mute, fill) ==
    LET n == dueCount(e.gateQueue, tick)
    IN IF n = 0 THEN e
       ELSE [e EXCEPT !.activity = e.gateQueue[n].gate,
                      !.gateOutput = gateOutputOf(mute, fill, e.gateQueue[n].gate),
                      !.gateQueue = SubSeq(@, n + 1, Len(@)),
                      !.sent = [i \in 1..n |-> e.gateQueue[i].gate],
                      !.sentTicks = [i \in 1..n |-> e.gateQueue[i].tick]]

\* the CV queue loop of NoteTrackEngine::tick: every due event is popped, and
\* applied unless the track is muted (mute is the same for all of them)
drainCvQueue(e, tick, mute, cvUpdateMode) ==
    LET n == dueCount(e.cvQueue, tick)
        ticks == [i \in 1..n |-> e.cvQueue[i].tick]
    IN IF n = 0 THEN e
       ELSE IF ~mute \/ cvUpdateMode = "Always"
            THEN [e EXCEPT !.cvOutputTarget = e.cvQueue[n].cv,
                           !.slideActive = e.cvQueue[n].slide,
                           !.cvQueue = SubSeq(@, n + 1, Len(@)),
                           !.cvSentTicks = ticks]
            ELSE [e EXCEPT !.cvQueue = SubSeq(@, n + 1, Len(@)), !.cvSentTicks = ticks]

\* recordStep taking the cursor back to where it was before the advance, and
\* hiding the advance, while recording in StepRecord mode
NoteRecordStepFreezes(e, in) ==
    IF in.transport.recording /\ in.transport.recordMode = "StepRecord"
    THEN [e EXCEPT !.sequenceState.step = e.sequenceState.prevStep, !.didAdvance = FALSE]
    ELSE IF ~in.transport.recording \/ e.sequenceState.prevStep < 0
    THEN e
    ELSE [e EXCEPT !.didRecord = TRUE]

\* NoteTrackEngine::recordStep as far as the engine's state goes: whether the
\* call gets past its first test (what it then writes are steps of the sequence)
NoteRecordStep(e, in) ==
    IF \/ ~in.transport.recording
       \/ in.transport.recordMode = "StepRecord"
       \/ e.sequenceState.prevStep < 0
    THEN e
    ELSE [e EXCEPT !.didRecord = TRUE]

\* the part of NoteTrackEngine::tick before the queues are drained, for an
\* engine that follows leader
NoteTickLinked(e, t, tick, in, leader) ==
    LET linkData == leader.linkData
        e1 == [e EXCEPT !.linkData = linkData, !.sequenceState = leader.sequenceState]
    IN IF U32Mod(linkData.relativeTick, linkData.divisor) = 0
       THEN NoteTriggerStep(NoteRecordStep(e1, in), t, tick, linkData.divisor, in)
       ELSE e1

\* the part of NoteTrackEngine::tick before the queues are drained, for an
\* engine that follows no other
NoteTickUnlinked(e, t, tick, in, mode_) ==
    LET sequence == Sequence(t, e.sequence)
        divisor == StepTicks(sequence.divisor)
        resetDivisor == sequence.resetMeasure * MeasureDivisor
        relativeTick == relativeTickOf(tick, resetDivisor)
        e1 == IF relativeTick = 0 THEN NoteReset(e) ELSE e
        freeTick == e1.freeRelativeTick
        e2 == IF mode_ = "Aligned"
              THEN IF U32Mod(relativeTick, divisor) = 0
                   THEN NoteTriggerStep(
                          NoteRecordStep(
                              [e1 EXCEPT !.didAdvance = TRUE, !.sequenceState =
                                  advanceAligned(@, U32Div(relativeTick, divisor), sequence.runMode,
                                                 sequence.firstStep, sequence.lastStep)],
                              in),
                          t, tick, divisor, in)
                   ELSE e1
              ELSE LET e1f == [e1 EXCEPT !.freeRelativeTick =
                                            IF freeTick + 1 >= divisor THEN 0 ELSE freeTick + 1]
                   IN IF freeTick = 0
                      THEN NoteTriggerStep(
                             NoteRecordStep(
                                 [e1f EXCEPT !.didAdvance = TRUE, !.sequenceState =
                                     advanceFree(@, sequence.runMode, sequence.firstStep,
                                                 sequence.lastStep)],
                                 in),
                             t, tick, divisor, in)
                      ELSE e1f
    IN [e2 EXCEPT !.linkData =
            [divisor |-> divisor,
             relativeTick |-> IF mode_ = "Aligned" THEN relativeTick ELSE freeTick,
             valid |-> TRUE]]

\* NoteTrackEngine::tick
NoteTick(e, t, tick, in, mode_, linked, leader) ==
    LET e1 == IF linked THEN NoteTickLinked(beginTick(e), t, tick, in, leader)
              ELSE NoteTickUnlinked(beginTick(e), t, tick, in, mode_)
    IN drainCvQueue(drainGateQueue(e1, tick, in.mute, in.fill), tick, in.mute,
                    in.track.cvUpdateMode)

\* RecordHistory as update() and monitorMidi() use it: the newest note event.
\* A note-on of the note that is held and a note-off of another note are not
\* written.
isNoteActive(h) == Len(h) > 0 /\ h[Len(h)].type = "NoteOn"

activeNote(h) == h[Len(h)].note

recordHistoryWrite(h, message) ==
    IF message.type = "NoteOn"
    THEN IF isNoteActive(h) /\ activeNote(h) = message.note THEN h ELSE <<message>>
    ELSE IF isNoteActive(h) /\ activeNote(h) = message.note THEN <<message>> ELSE h

\* noteFromMidiNote on the chromatic scale with root note 0
noteFromMidiNote(midiNote) == midiNote - 60

\* CONFIG_STEP_COUNT
StepCount == 64

isStepRecording(transport_) ==
    transport_.recording /\ transport_.recordMode = "StepRecord"

\* the smoother without the limit of 1 on the factor
slideStepUnlimited(cvOutput, target, dtMs, slideTime) ==
    LET delta == target - cvOutput
        move == (Abs(delta) * (dtMs * (200 - 2 * slideTime))) \div 1000
    IN IF delta < 0 THEN cvOutput - move ELSE cvOutput + move

\* _cvOutput += (_cvOutputTarget - _cvOutput) * std::min(1.f, dt * (200 - 2 * slideTime)),
\* in millivolts, dt in milliseconds, the factor in thousandths
slideStep(cvOutput, target, dtMs, slideTime) ==
    LET factor == Min(1000, dtMs * (200 - 2 * slideTime))
        delta == target - cvOutput
        move == (Abs(delta) * factor) \div 1000
    IN IF delta < 0 THEN cvOutput - move ELSE cvOutput + move

\* midi monitoring whatever the transport does
midiMonitoringAlways(transport_, noteActive) == noteActive

\* the test of the second override: (!running || !isStepRecordMode) && isNoteActive()
midiMonitoring(transport_, noteActive) ==
    (~transport_.running \/ transport_.recordMode # "StepRecord") /\ noteActive

\* NoteTrackEngine::update. in: the transport, the track's settings and the
\* step data read at monitorStepIndex
NoteUpdate(e, t, in, dtMs) ==
    LET tr == in.transport
        trk == in.track
        sequence == Sequence(t, e.sequence)
        isStepRecordMode == tr.recordMode = "StepRecord"
        e1 == [e EXCEPT !.currentRecordStep =
                    IF isStepRecording(tr)
                    THEN IF @ = -1 THEN sequence.firstStep ELSE @
                    ELSE -1]
        e2 == IF ~tr.running /\ (~tr.recording \/ isStepRecordMode) /\ e1.monitorStepIndex >= 0
              THEN [e1 EXCEPT !.cvOutputTarget =
                                  evalStepNote(in.step, 0, 0, trk.octave, trk.transpose,
                                               FALSE, 0, 0),
                              !.activity = TRUE, !.gateOutput = TRUE,
                              !.monitorOverrideActive = TRUE]
              ELSE IF midiMonitoring(tr, isNoteActive(e1.recordHistory))
              THEN [e1 EXCEPT !.cvOutputTarget =
                                  noteToVolts(noteFromMidiNote(activeNote(e1.recordHistory))
                                              + evalTransposition(trk.octave, trk.transpose)),
                              !.activity = TRUE, !.gateOutput = TRUE,
                              !.monitorOverrideActive = TRUE]
              ELSE IF e1.monitorOverrideActive
              THEN [e1 EXCEPT !.activity = FALSE, !.gateOutput = FALSE,
                              !.monitorOverrideActive = FALSE]
              ELSE e1
    IN [e2 EXCEPT !.cvOutput =
            IF e2.slideActive /\ trk.slideTime > 0
            THEN slideStep(@, e2.cvOutputTarget, dtMs, trk.slideTime)
            ELSE e2.cvOutputTarget]

\* NoteTrackEngine::monitorMidi. wrote: the index of the step it wrote, if any
monitorMidi(e, t, transport_, message) ==
    LET sequence == Sequence(t, e.sequence)
        e1 == [e EXCEPT !.recordHistory = recordHistoryWrite(@, message), !.wrote = <<>>]
    IN IF isStepRecording(transport_) /\ message.type = "NoteOn"
       THEN [e1 EXCEPT !.wrote = <<e.currentRecordStep>>,
                       !.currentRecordStep =
                            IF @ + 1 > sequence.lastStep THEN sequence.firstStep ELSE @ + 1]
       ELSE e1

\* NoteTrackEngine::setMonitorStep
setMonitorStep(e, t, transport_, index) ==
    LET sequence == Sequence(t, e.sequence)
    IN [e EXCEPT !.monitorStepIndex = IF index >= 0 /\ index < StepCount THEN index ELSE -1,
                 !.currentRecordStep =
                    IF /\ isStepRecording(transport_)
                       /\ index >= sequence.firstStep
                       /\ index <= sequence.lastStep
                    THEN index ELSE @]

\* the writeStep lambda of recordStep: the step after the write. setLength
\* and setNote clamp to the range of their field.
writeStep(step, note, lengthTicks, divisor) ==
    [step EXCEPT !.gate = TRUE,
                 !.gateProbability = ProbabilityRange - 1,
                 !.retrigger = 0,
                 !.retriggerProbability = ProbabilityRange - 1,
                 !.length = clamp((lengthTicks * LengthRange) \div divisor, 0, LengthRange - 1),
                 !.lengthVariationRange = 0,
                 !.lengthVariationProbability = ProbabilityRange - 1,
                 !.note = clamp(noteFromMidiNote(note), NoteMin, NoteMax),
                 !.noteVariationRange = 0,
                 !.noteVariationProbability = ProbabilityRange - 1,
                 !.condition = Off]

\* the loop of recordStep over the events h[i..] of the record history, each
\* with its tick, type and note: r.step is the step prevStep and r.written
\* tells whether the loop wrote it
RECURSIVE recordLoop(_, _, _, _, _)
recordLoop(h, i, tick, divisor, r) ==
    IF i > Len(h) THEN r
    ELSE IF h[i].type # "NoteOn" THEN recordLoop(h, i + 1, tick, divisor, r)
    ELSE LET stepStart == tick - divisor
             stepEnd == tick
             margin == divisor \div 2
             noteStart == h[i].tick
             noteEnd == IF i + 1 <= Len(h) THEN h[i + 1].tick ELSE tick
             upTo == IF U32Less(noteEnd, stepEnd) THEN noteEnd ELSE stepEnd
             write(lengthTicks) ==
                 [step |-> writeStep(r.step, h[i].note, lengthTicks, divisor),
                  written |-> TRUE]
         IN recordLoop(h, i + 1, tick, divisor,
                IF /\ ~U32Less(noteStart, stepStart - margin)
                   /\ U32Less(noteStart, stepStart + margin)
                THEN IF ~U32Less(noteEnd, stepEnd)
                     THEN write(upTo - stepStart)
                     ELSE write(noteEnd - noteStart)
                ELSE IF U32Less(noteStart, stepStart) /\ U32Less(stepStart, noteEnd)
                THEN write(upTo - stepStart)
                ELSE r)

\* NoteTrackEngine::recordStep as far as the sequence goes: the step prevStep
\* after the call (step before it), whether the call wrote it and whether it
\* cleared it
recordStep(h, tick, divisor, prevStep, step, selected, transport_) ==
    IF \/ ~transport_.recording
       \/ transport_.recordMode = "StepRecord"
       \/ prevStep < 0
    THEN [step |-> step, written |-> FALSE, cleared |-> FALSE]
    ELSE LET r == recordLoop(h, 1, tick, divisor, [step |-> step, written |-> FALSE])
         IN [step |-> r.step, written |-> r.written,
             cleared |-> selected /\ ~r.written /\ transport_.recordMode = "Overwrite"]

\* --------------------------------------------------------- CurveTrackEngine

\* CurveSequence::Min::Max, CurveSequence::Max::Max
CurveValueMax == 255
\* Range of CurveSequence::GateProbability, and of the shape variation draw
CurveProbabilityRange == 8

PlainCurveStep ==
    [shape |-> "RampUp", shapeVariation |-> "RampDown", shapeVariationProbability |-> 0,
     min |-> 0, max |-> CurveValueMax, gate |-> 0, gateProbability |-> CurveProbabilityRange - 1]

PlainCurveTrack ==
    [fillMode |-> "None", fillAmount |-> 100, rotate |-> 0, swing |-> 50,
     shapeProbabilityBias |-> 0, gateProbabilityBias |-> 0]

\* the rng draws of one CurveTrackEngine::triggerStep
PlainCurveDraws == [shape |-> 0, fill |-> 0, gate |-> [i \in 0..3 |-> 0]]

\* Curve::function at fraction num / den, as a numerator over den
curveFunction(shape, num, den) ==
    CASE shape = "Low" -> 0
      [] shape = "High" -> den
      [] shape = "RampUp" -> num
      [] OTHER -> den - num

\* evalStepShape at fraction num / den: a fraction of the voltage range
evalStepShape(step, variation, invert, num, den) ==
    LET f == curveFunction(IF variation THEN step.shapeVariation ELSE step.shape, num, den)
        value == IF invert THEN den - f ELSE f
    IN [num |-> step.min * den + value * (step.max - step.min),
        den |-> CurveValueMax * den]

\* evalShapeVariation with the comparison of the other probability tests
evalShapeVariationInclusive(step, probabilityBias, draw) ==
    draw <= clamp(step.shapeVariationProbability + probabilityBias, 0, 8)

evalShapeVariation(step, probabilityBias, draw) ==
    draw < clamp(step.shapeVariationProbability + probabilityBias, 0, 8)

evalGate(step, probabilityBias, draw) ==
    draw <= clamp(step.gateProbability + probabilityBias, -1, CurveProbabilityRange - 1)

\* bit i of the step's gate pattern
gateBit(gate, i) == (gate \div (2^i)) % 2 = 1

\* CurveTrackEngine::reset
CurveReset(e) ==
    changePattern(
        [e EXCEPT !.sequenceState = SequenceStateReset,
                  !.currentStep = -1,
                  !.currentStepFraction = [num |-> 0, den |-> 1],
                  !.shapeVariation = FALSE,
                  !.fillMode = "None",
                  !.activity = FALSE,
                  !.gateOutput = FALSE,
                  !.gateQueue = <<>>,
                  !.didReset = TRUE, !.sent = <<>>, !.lastSent = <<>>,
                  !.sentTicks = <<>>, !.cvSentTicks = <<>>],
        e.pattern)

\* CurveTrackEngine::restart
CurveRestart(e) ==
    [e EXCEPT !.sequenceState = SequenceStateReset,
              !.currentStep = -1,
              !.currentStepFraction = [num |-> 0, den |-> 1]]

\* the engine as its constructor leaves it (the constructor calls reset())
CurveEngine(pattern) ==
    CurveReset([sequenceState |-> SequenceStateReset, currentStep |-> -1,
                currentStepFraction |-> [num |-> 0, den |-> 1], shapeVariation |-> FALSE,
                fillMode |-> "None", activity |-> FALSE, gateOutput |-> FALSE,
                cvOutput |-> [num |-> 0, den |-> 1],
                cvOutputTarget |-> [num |-> 0, den |-> 1],
                gateQueue |-> <<>>, pattern |-> pattern, sequence |-> pattern,
                fillSequence |-> pattern, linkData |-> NoLinkData] @@ NoTrace)

\* CurveTrackEngine::sequenceProgress: the quotient as numerator and
\* denominator of the float division; den = 0 stands for the NaN or infinity
\* that the division by zero yields
sequenceProgress(e, t) ==
    LET sequence == Sequence(t, e.sequence)
    IN IF e.currentStep < 0
       THEN [num |-> 0, den |-> 1]
       ELSE [num |-> e.currentStep - sequence.firstStep,
             den |-> sequence.lastStep - sequence.firstStep]

\* the gate pattern loop of CurveTrackEngine::triggerStep, from bit i on
RECURSIVE curveGates(_, _, _, _, _, _, _)
curveGates(q, i, tick, divisor, step, trk, d) ==
    IF i >= 4 THEN q
    ELSE curveGates(
            IF gateBit(step.gate, i) /\ evalGate(step, trk.gateProbabilityBias, d.gate[i])
            THEN QueuePushReplace(
                    QueuePushReplace(q, [tick |-> applySwing(tick + (divisor * i) \div 4,
                                                             trk.swing),
                                         gate |-> TRUE]),
                    [tick |-> applySwing(tick + (divisor * i) \div 4 + divisor \div 8,
                                         trk.swing),
                     gate |-> FALSE])
            ELSE q,
            i + 1, tick, divisor, step, trk, d)

\* CurveTrackEngine::triggerStep
CurveTriggerStep(e, t, tick, divisor, in) ==
    LET trk == in.track
        sequence == Sequence(t, e.sequence)
        fillStep == in.fill /\ in.draws.fill < trk.fillAmount
    IN [e EXCEPT
          !.didTrigger = TRUE,
          !.currentStep = rotateStep(e.sequenceState.step, sequence.firstStep,
                                     sequence.lastStep, trk.rotate),
          !.shapeVariation = evalShapeVariation(in.step, trk.shapeProbabilityBias,
                                                in.draws.shape),
          !.fillMode = IF fillStep THEN trk.fillMode ELSE "None",
          !.gateQueue = curveGates(@, 0, tick, divisor, in.step, trk, in.draws)]

\* updateOutput reading the fill state of the track at the tick
CurveUpdateOutputLive(e, relativeTick, divisor, in) ==
    IF e.sequenceState.step < 0 THEN e
    ELSE LET fillMode == IF in.fill THEN in.track.fillMode ELSE "None"
             step == IF fillMode = "NextPattern" THEN in.fillStepData ELSE in.step
             num == U32Mod(relativeTick, divisor)
         IN [e EXCEPT
               !.currentStepFraction = [num |-> num, den |-> divisor],
               !.cvOutputTarget = evalStepShape(step,
                                                e.shapeVariation \/ fillMode = "Variation",
                                                fillMode = "Invert", num, divisor)]

\* CurveTrackEngine::updateOutput; in.step is the step of the current pattern,
\* in.fillStepData the step of the next pattern at the same index
CurveUpdateOutput(e, relativeTick, divisor, in) ==
    IF e.sequenceState.step < 0 THEN e
    ELSE LET step == IF e.fillMode = "NextPattern" THEN in.fillStepData ELSE in.step
             num == U32Mod(relativeTick, divisor)
         IN [e EXCEPT
               !.currentStepFraction = [num |-> num, den |-> divisor],
               !.cvOutputTarget = evalStepShape(step,
                                                e.shapeVariation \/ e.fillMode = "Variation",
                                                e.fillMode = "Invert", num, divisor)]

\* the part of CurveTrackEngine::tick before the gate queue is drained, for an
\* engine that follows leader (not recording: updateRecording only resets the
\* recorder)
CurveTickLinked(e, t, tick, in, leader) ==
    LET linkData == leader.linkData
        e1 == [e EXCEPT !.linkData = linkData, !.sequenceState = leader.sequenceState]
        e2 == IF U32Mod(linkData.relativeTick, linkData.divisor) = 0
              THEN CurveTriggerStep(e1, t, tick, linkData.divisor, in)
              ELSE e1
    IN CurveUpdateOutput(e2, linkData.relativeTick, linkData.divisor, in)

\* the part of CurveTrackEngine::tick before the gate queue is drained, for an
\* engine that follows no other
CurveTickUnlinked(e, t, tick, in, mode_) ==
    LET sequence == Sequence(t, e.sequence)
        divisor == StepTicks(sequence.divisor)
        resetDivisor == sequence.resetMeasure * MeasureDivisor
        relativeTick == relativeTickOf(tick, resetDivisor)
        e1 == IF relativeTick = 0 THEN CurveReset(e) ELSE e
        e2 == IF U32Mod(relativeTick, divisor) = 0
              THEN CurveTriggerStep(
                     [e1 EXCEPT !.didAdvance = TRUE, !.sequenceState =
                         IF mode_ = "Aligned"
                         THEN advanceAligned(@, U32Div(relativeTick, divisor), sequence.runMode,
                                             sequence.firstStep, sequence.lastStep)
                         ELSE advanceFree(@, sequence.runMode, sequence.firstStep,
                                          sequence.lastStep)],
                     t, tick, divisor, in)
              ELSE e1
    IN [CurveUpdateOutput(e2, relativeTick, divisor, in) EXCEPT !.linkData =
            [divisor |-> divisor, relativeTick |-> relativeTick, valid |-> TRUE]]

\* CurveTrackEngine::tick
CurveTick(e, t, tick, in, mode_, linked, leader) ==
    LET e1 == IF linked THEN CurveTickLinked(beginTick(e), t, tick, in, leader)
              ELSE CurveTickUnlinked(beginTick(e), t, tick, in, mode_)
    IN drainGateQueue(e1, tick, in.mute, in.fill)

\* ------------------------------------------------------------ state machine

NoEngine == [none |-> TRUE]

\* the track that follows track t in a tick pass, 0 when the pass is over
nextTurn(t) == IF t + 1 \in Tracks /\ mode[t + 1] # "None" THEN t + 1 ELSE 0

isLinked(t) == link[t] >= 0
leaderOf(t) == IF isLinked(t) THEN eng[link[t]] ELSE NoEngine

\* ---------------------------------------------------------------------------
\* The transport of the engine: running, recording and the record mode.

Playing == [running |-> TRUE, recording |-> FALSE, recordMode |-> "Overdub"]

Transports ==
    [running : BOOLEAN, recording : BOOLEAN,
     recordMode : {"Overdub", "Overwrite", "StepRecord"}]

\* ---------------------------------------------------------------------------
\* MidiCvTrack: the four clamped settings, each stored in a uint8_t.

MaxEdits == 3

U8(x) == x % 256

\* what the fields may hold before the constructor has assigned them
Uninitialised ==
    { [voices |-> v, lowNote |-> l, highNote |-> h, pitchBendRange |-> 0] :
        v \in {0}, l \in {0, 200}, h \in {0, 77, 255} }

setVoices(track, voices) ==
    [track EXCEPT !.voices = U8(clamp(voices, 1, 8))]

editVoices(track, value) == setVoices(track, track.voices + value)

\* setLowNote without the upper limit highNote()
setLowNoteBelow128(track, lowNote) ==
    [track EXCEPT !.lowNote = U8(clamp(lowNote, 0, 127))]

setLowNote(track, lowNote) ==
    [track EXCEPT !.lowNote = U8(clamp(lowNote, 0, track.highNote))]

editLowNote(track, value, shift) ==
    setLowNote(track, track.lowNote + value * (IF shift THEN 12 ELSE 1))

setHighNote(track, highNote) ==
    [track EXCEPT !.highNote = U8(clamp(highNote, track.lowNote, 127))]

editHighNote(track, value, shift) ==
    setHighNote(track, track.highNote + value * (IF shift THEN 12 ELSE 1))

setPitchBendRange(track, pitchBendRange) ==
    [track EXCEPT !.pitchBendRange = U8(clamp(pitchBendRange, 0, 48))]

editPitchBendRange(track, value) ==
    setPitchBendRange(track, track.pitchBendRange + value)

\* MidiCvTrack::clear; the constructor calls it on the fields as they happen to be
MidiCvTrackClear(track) ==
    setPitchBendRange(setHighNote(setLowNote(setVoices(track, 1), 0), 127), 2)

\* The states after construction: the tracks cfg.modes allows, each engine
\* constructed on one of cfg.patterns, the clock at one of cfg.starts.
InitEngines(cfg) ==
    /\ now \in cfg.starts
    /\ turn = 0
    /\ budget = [ticks |-> MaxTicks,
                 ops |-> IF "ops" \in DOMAIN cfg THEN cfg.ops ELSE MaxOps]
    /\ mode \in cfg.modes
    /\ link \in cfg.links
    /\ playMode \in [Tracks -> cfg.playModes]
    /\ play \in [Tracks -> cfg.plays]
    /\ \A t \in Tracks : mode[t] = "None" =>
            /\ playMode[t] = "Aligned"
            /\ play[t] = [mute |-> FALSE, fill |-> FALSE]
    /\ \E pattern \in [Tracks -> cfg.patterns \cup {0}] :
        /\ \A t \in Tracks : IF mode[t] = "None" THEN pattern[t] = 0
                              ELSE pattern[t] \in cfg.patterns
        /\ eng = [t \in Tracks |->
                    CASE mode[t] = "Note" -> NoteEngine(pattern[t])
                      [] mode[t] = "Curve" -> CurveEngine(pattern[t])
                      [] OTHER -> NoEngine]
    /\ obs = [op |-> "init", track |-> 0, tick |-> 0, before |-> NoEngine]

\* InitEngines with the transport playing and a constructed MidiCvTrack
InitWith(cfg) ==
    /\ InitEngines(cfg)
    /\ transport = Playing
    /\ \E raw \in Uninitialised : midiCvTrack = MidiCvTrackClear(raw)

\* The clock delivers tick now to the Note engine of track turn; at the end of
\* the pass the clock moves on. With watch, obs keeps the engine before the
\* call and the inputs of the call.
NoteTickCall(D, watch) ==
    /\ budget.ticks > 0
    /\ mode[turn] = "Note"
    /\ \E step \in D.steps, trk \in D.tracks, d \in D.draws :
          LET in == [mute |-> play[turn].mute, fill |-> play[turn].fill,
                     track |-> trk, step |-> step, draws |-> d,
                     transport |-> transport]
          IN /\ eng' = [eng EXCEPT ![turn] =
                          NoteTick(@, turn, now, in, playMode[turn], isLinked(turn),
                                   leaderOf(turn))]
             /\ obs' = IF watch
                       THEN [op |-> "tick", track |-> turn, tick |-> now,
                             before |-> eng[turn], in |-> in]
                       ELSE [op |-> "tick", track |-> turn, tick |-> now,
                             before |-> NoEngine]
    /\ turn' = nextTurn(turn)
    /\ now' = IF nextTurn(turn) = 0 THEN now + 1 ELSE now
    /\ budget' = IF nextTurn(turn) = 0 THEN [budget EXCEPT !.ticks = @ - 1] ELSE budget
    /\ UNCHANGED <<mode, link, playMode, play, transport, midiCvTrack>>

NoteTickStep(D) == NoteTickCall(D, FALSE)

NoteTickSeen(D) == NoteTickCall(D, TRUE)

\* The same for the Curve engine of track turn. The step that updateOutput
\* reads from the next pattern (in.fillStepData) holds the data of in.step,
\* or with watch any step of the domain.
CurveTickCall(D, watch) ==
    /\ budget.ticks > 0
    /\ mode[turn] = "Curve"
    /\ \E step \in D.curveSteps, trk \in D.curveTracks, d \in D.curveDraws :
          \E fillStepData \in IF watch THEN D.curveSteps ELSE {step} :
             LET in == [mute |-> play[turn].mute, fill |-> play[turn].fill,
                        track |-> trk, step |-> step, fillStepData |-> fillStepData,
                        draws |-> d]
             IN /\ eng' = [eng EXCEPT ![turn] =
                             CurveTick(@, turn, now, in, playMode[turn], isLinked(turn),
                                       leaderOf(turn))]
                /\ obs' = IF watch
                          THEN [op |-> "tick", track |-> turn, tick |-> now,
                                before |-> eng[turn], in |-> in]
                          ELSE [op |-> "tick", track |-> turn, tick |-> now,
                                before |-> NoEngine]
    /\ turn' = nextTurn(turn)
    /\ now' = IF nextTurn(turn) = 0 THEN now + 1 ELSE now
    /\ budget' = IF nextTurn(turn) = 0 THEN [budget EXCEPT !.ticks = @ - 1] ELSE budget
    /\ UNCHANGED <<mode, link, playMode, play, transport, midiCvTrack>>

CurveTickStep(D) == CurveTickCall(D, FALSE)

\* A control operation on track t, between two tick passes.
control(t, op, e) ==
    /\ budget.ops > 0
    /\ turn = 0
    /\ eng' = [eng EXCEPT ![t] = e]
    /\ budget' = [budget EXCEPT !.ops = @ - 1]
    /\ obs' = [op |-> op, track |-> t, tick |-> now, before |-> eng[t]]
    /\ UNCHANGED <<now, turn, mode, link, playMode, play, transport, midiCvTrack>>

NoteResetStep ==
    \E t \in Tracks : mode[t] = "Note" /\ control(t, "reset", NoteReset(eng[t]))

NoteRestartStep ==
    \E t \in Tracks : mode[t] = "Note" /\ control(t, "restart", NoteRestart(eng[t]))

CurveResetStep ==
    \E t \in Tracks : mode[t] = "Curve" /\ control(t, "reset", CurveReset(eng[t]))

CurveRestartStep ==
    \E t \in Tracks : mode[t] = "Curve" /\ control(t, "restart", CurveRestart(eng[t]))

\* The play state selects another pattern and the engine is told.
ChangePatternStep ==
    \E t \in Tracks, p \in 0..(PatternCount - 1) :
        /\ mode[t] # "None"
        /\ p # eng[t].pattern
        /\ control(t, "changePattern", changePattern(eng[t], p))

\* The user mutes or unmutes the track, presses or releases fill.
SetPlayStep ==
    \E t \in Tracks, m \in BOOLEAN, f \in BOOLEAN :
        /\ mode[t] # "None"
        /\ budget.ops > 0
        /\ turn = 0
        /\ play[t] # [mute |-> m, fill |-> f]
        /\ play' = [play EXCEPT ![t] = [mute |-> m, fill |-> f]]
        /\ budget' = [budget EXCEPT !.ops = @ - 1]
        /\ obs' = [op |-> "setPlay", track |-> t, tick |-> now, before |-> NoEngine]
        /\ UNCHANGED <<now, turn, mode, link, playMode, eng, transport, midiCvTrack>>

\* ------------------------------------------------- one track, Note or Curve

\* Steps read by triggerStep: a plain one, one with its gate off, one of full
\* length, one late by 7/8 of a step, one late by half a step with a retrigger.
Domain ==
    [steps |-> { PlainStep,
                 [PlainStep EXCEPT !.gate = FALSE],
                 [PlainStep EXCEPT !.length = LengthRange - 1],
                 [PlainStep EXCEPT !.gateOffset = GateOffsetMax, !.note = 12,
                                   !.slide = TRUE],
                 [PlainStep EXCEPT !.gateOffset = 4, !.retrigger = 1] },
     tracks |-> { PlainNoteTrack,
                  [PlainNoteTrack EXCEPT !.cvUpdateMode = "Always", !.swing = 75] },
     draws |-> {PlainDraws},
     curveSteps |-> { PlainCurveStep, [PlainCurveStep EXCEPT !.gate = 1],
                      [PlainCurveStep EXCEPT !.gate = 10] },
     curveTracks |-> {PlainCurveTrack},
     curveDraws |-> {PlainCurveDraws}]

Init ==
    InitWith([starts |-> {0},
              modes |-> {[t \in Tracks |-> IF t = 0 THEN m ELSE "None"] :
                            m \in {"Note", "Curve"}},
              links |-> {[t \in Tracks |-> -1]},
              playModes |-> {"Aligned", "Free"},
              plays |-> {[mute |-> m, fill |-> FALSE] : m \in BOOLEAN},
              patterns |-> {0}])

Next ==
    \/ NoteTickStep(Domain)
    \/ CurveTickStep(Domain)
    \/ NoteResetStep
    \/ NoteRestartStep
    \/ CurveResetStep
    \/ CurveRestartStep
    \/ ChangePatternStep
    \/ SetPlayStep

Spec == Init /\ [][Next]_vars

\* ----------------------------- one Note track on the slow pattern, crowded

\* Steps that fill the gate queue: late by 7/8 of a step, full length, with
\* eight retrigger pulses or with one.
CrowdedDomain ==
    [steps |-> { PlainStep,
                 [PlainStep EXCEPT !.gateOffset = GateOffsetMax,
                                   !.length = LengthRange - 1, !.retrigger = 7],
                 [PlainStep EXCEPT !.gateOffset = GateOffsetMax,
                                   !.length = LengthRange - 1] },
     tracks |-> {PlainNoteTrack}, draws |-> {PlainDraws},
     curveSteps |-> {}, curveTracks |-> {}, curveDraws |-> {}]

InitOverflow ==
    InitWith([starts |-> {0},
              modes |-> {[t \in Tracks |-> IF t = 0 THEN "Note" ELSE "None"]},
              links |-> {[t \in Tracks |-> -1]},
              playModes |-> {"Aligned", "Free"},
              plays |-> {[mute |-> FALSE, fill |-> FALSE]},
              patterns |-> {1}])

NextOverflow ==
    \/ NoteTickStep(CrowdedDomain)
    \/ NoteRestartStep
    \/ NoteResetStep

SpecOverflow == InitOverflow /\ [][NextOverflow]_vars

\* ------------------------------------------- track 1 follows track 0

LinkDomain ==
    [steps |-> {PlainStep}, tracks |-> {PlainNoteTrack}, draws |-> {PlainDraws},
     curveSteps |-> {PlainCurveStep}, curveTracks |-> {PlainCurveTrack},
     curveDraws |-> {PlainCurveDraws}]

InitLink ==
    InitWith([starts |-> {0},
              modes |-> [Tracks -> {"Note", "Curve"}],
              links |-> {[t \in Tracks |-> IF t = 1 THEN 0 ELSE -1]},
              playModes |-> {"Aligned", "Free"},
              plays |-> {[mute |-> FALSE, fill |-> FALSE]},
              patterns |-> 0..(PatternCount - 1)])

NextLink ==
    \/ NoteTickStep(LinkDomain)
    \/ CurveTickStep(LinkDomain)
    \/ ChangePatternStep

SpecLink == InitLink /\ [][NextLink]_vars

\* --------------------------- one Note track around the end of a measure

MeasureDomain ==
    [steps |-> {PlainStep, [PlainStep EXCEPT !.gate = FALSE]},
     tracks |-> {PlainNoteTrack}, draws |-> {PlainDraws},
     curveSteps |-> {}, curveTracks |-> {}, curveDraws |-> {}]

\* the clock starts at tick 0 or two ticks before the end of the first measure
InitMeasure ==
    InitWith([starts |-> {0, MeasureDivisor - 2},
              modes |-> {[t \in Tracks |-> IF t = 0 THEN "Note" ELSE "None"]},
              links |-> {[t \in Tracks |-> -1]},
              playModes |-> {"Aligned", "Free"},
              plays |-> {[mute |-> FALSE, fill |-> FALSE]},
              patterns |-> 0..(PatternCount - 1)])

NextMeasure ==
    \/ NoteTickStep(MeasureDomain)
    \/ NoteRestartStep
    \/ ChangePatternStep

SpecMeasure == InitMeasure /\ [][NextMeasure]_vars

\* ------------------------------------ one Note track playing retriggers

\* Steps of two, three, four and eight pulses, of the shortest, a middle and
\* the full length, on the beat or late by 3/8 of a step.
RetriggerDomain ==
    [steps |-> { [PlainStep EXCEPT !.retrigger = r, !.length = l, !.gateOffset = o] :
                    r \in {0, 1, 2, 3, 7}, l \in {0, 3, LengthRange - 1}, o \in {0, 3} },
     tracks |-> {PlainNoteTrack}, draws |-> {PlainDraws},
     curveSteps |-> {}, curveTracks |-> {}, curveDraws |-> {}]

\* the engine plays pattern 0 (4 ticks per step) or pattern 3 (24 ticks)
InitRetrigger ==
    InitWith([starts |-> {0},
              modes |-> {[t \in Tracks |-> IF t = 0 THEN "Note" ELSE "None"]},
              links |-> {[t \in Tracks |-> -1]},
              playModes |-> {"Aligned", "Free"},
              plays |-> {[mute |-> FALSE, fill |-> FALSE]},
              patterns |-> {0, 3}])

NextRetrigger ==
    \/ NoteTickSeen(RetriggerDomain)
    \/ NoteResetStep

SpecRetrigger == InitRetrigger /\ [][NextRetrigger]_vars

\* ------------------------------------------- one Note track, fill pressed

\* Steps: one with its gate on, one with its gate off, one with the lowest
\* gate probability. Tracks: fill by gates or by condition, with the fill
\* amount at 100 or at 50. Draws: the fill draw (0..99) below or above a fill
\* amount of 50, the gate draw within or above the lowest gate probability.
FillDomain ==
    [steps |-> { PlainStep, [PlainStep EXCEPT !.gate = FALSE],
                 [PlainStep EXCEPT !.gateProbability = 0] },
     tracks |-> { [PlainNoteTrack EXCEPT !.fillMode = fm, !.fillAmount = a] :
                    fm \in {"Gates", "Condition"}, a \in {100, 50} },
     draws |-> { [PlainDraws EXCEPT !.fill = f, !.gate = g] :
                    f \in {0, 70}, g \in {0, 5} },
     curveSteps |-> {}, curveTracks |-> {}, curveDraws |-> {}]

InitFill ==
    InitWith([starts |-> {0},
              modes |-> {[t \in Tracks |-> IF t = 0 THEN "Note" ELSE "None"]},
              links |-> {[t \in Tracks |-> -1]},
              playModes |-> {"Aligned", "Free"},
              plays |-> {[mute |-> m, fill |-> f] : m, f \in BOOLEAN},
              patterns |-> {0}])

NextFill ==
    \/ NoteTickSeen(FillDomain)
    \/ NoteResetStep
    \/ SetPlayStep

SpecFill == InitFill /\ [][NextFill]_vars

\* ------------------------------------------------------------------ claims

live(t) == mode[t] # "None"

ticked(t) == obs.op = "tick" /\ obs.track = t

noSameTick(q) == \A i, j \in 1..Len(q) : i # j => q[i].tick # q[j].tick

\* C1: a tick() that dequeued gate events leaves activity at the last event's
\* gate value and gateOutput at (not mute or fill) and activity; muted without
\* fill, gateOutput is low.
C1_GateOutputOverride ==
    \A t \in Tracks :
        (ticked(t) /\ Len(eng[t].sent) > 0) =>
            /\ eng[t].activity = eng[t].sent[Len(eng[t].sent)]
            /\ eng[t].gateOutput = ((~play[t].mute \/ play[t].fill) /\ eng[t].activity)
            /\ (play[t].mute /\ ~play[t].fill => ~eng[t].gateOutput)

\* a muted track without fill dequeued a rising edge and its gateOutput stayed low
C1_Witness ==
    \E t \in Tracks :
        /\ ticked(t) /\ Len(eng[t].sent) > 0
        /\ play[t].mute /\ ~play[t].fill
        /\ eng[t].activity /\ ~eng[t].gateOutput

\* C2: after NoteTrackEngine::tick(t) neither the gate queue nor the CV queue
\* holds an entry due at or before t.
C2_QueuesDrained ==
    \A t \in Tracks :
        (ticked(t) /\ mode[t] = "Note") =>
            /\ \A i \in 1..Len(eng[t].gateQueue) : eng[t].gateQueue[i].tick > obs.tick
            /\ \A i \in 1..Len(eng[t].cvQueue) : eng[t].cvQueue[i].tick > obs.tick

\* a tick() dequeued a gate event and applied a CV event, and left later
\* entries pending in both queues
C2_Witness ==
    \E t \in Tracks :
        /\ ticked(t) /\ mode[t] = "Note"
        /\ Len(eng[t].sent) > 0
        /\ eng[t].cvOutputTarget # 0
        /\ Len(eng[t].gateQueue) > 0
        /\ Len(eng[t].cvQueue) > 0

\* C3 as claimed: consecutive gate events dequeued by NoteTrackEngine::tick
\* have opposite gate values.
C3_GateEventsAlternate ==
    \A t \in Tracks :
        mode[t] = "Note" =>
            LET events == eng[t].lastSent \o eng[t].sent
            IN \A i \in 1..(Len(events) - 1) : events[i] # events[i + 1]

\* C4: the gate queue of an engine never holds two entries with the same tick.
C4_GateQueueDistinctTicks ==
    \A t \in Tracks : live(t) => noSameTick(eng[t].gateQueue)

\* the first gate event dequeued since the reset is a falling edge: pushed
\* for the tick of its own rising edge (a pulse of length 0), it overwrote the
\* rising edge and is what the tick dequeued
C4_Witness ==
    \E t \in Tracks :
        /\ ticked(t) /\ eng[t].didTrigger
        /\ eng[t].lastSent = <<>>
        /\ eng[t].sent = <<FALSE>>

\* C5 as claimed: the CV queue never holds two entries with the same tick.
C5_CvQueueDistinctTicks ==
    \A t \in Tracks : mode[t] = "Note" => noSameTick(eng[t].cvQueue)

\* C6: an engine never has more than 16 gate events pending; a push into a
\* full queue leaves it at 16 entries.
C6_GateQueueBounded ==
    \A t \in Tracks : live(t) => Len(eng[t].gateQueue) <= QueueCapacity

\* tick 0 queued the sixteen edges of eight retrigger pulses for ticks 14..29;
\* after a restart() tick 1 queued a full-length gate from 15 to 31: nothing
\* was dequeued, the falling edge for 31 is pending, the rising edge for 14
\* is gone and sixteen entries are pending
C6_Witness ==
    \E t \in Tracks :
        LET q == eng[t].gateQueue
        IN /\ ticked(t) /\ obs.tick = 1 /\ eng[t].didTrigger
           /\ eng[t].sent = <<>> /\ eng[t].lastSent = <<>>
           /\ Len(q) = QueueCapacity
           /\ q[1].tick = 15
           /\ q[QueueCapacity] = [tick |-> 31, gate |-> FALSE]

\* C7 as claimed: currentStep is negative or within the step range of the
\* current sequence.
C7_CurrentStepInRange ==
    \A t \in Tracks :
        live(t) =>
            \/ eng[t].currentStep < 0
            \/ /\ Sequence(t, eng[t].sequence).firstStep <= eng[t].currentStep
               /\ eng[t].currentStep <= Sequence(t, eng[t].sequence).lastStep

\* C8 as claimed: after the follower's tick() in a pass, its sequence state is
\* the leader's, it made no advance of its own, and it triggered a step iff
\* the leader did.
C8_LinkedShareCursor ==
    \A t \in Tracks :
        (ticked(t) /\ isLinked(t)) =>
            /\ eng[t].sequenceState = eng[link[t]].sequenceState
            /\ ~eng[t].didAdvance
            /\ eng[t].didTrigger = eng[link[t]].didTrigger

\* C9: after NoteTrackEngine::reset() the engine is in its initial state.
C9_ResetIsInitial ==
    \A t \in Tracks :
        (obs.op = "reset" /\ obs.track = t /\ mode[t] = "Note") =>
            /\ eng[t].currentStep = -1
            /\ eng[t].sequenceState.step = -1
            /\ eng[t].sequenceState.iteration = 0
            /\ eng[t].freeRelativeTick = 0
            /\ eng[t].prevCondition = FALSE
            /\ eng[t].activity = FALSE /\ eng[t].gateOutput = FALSE
            /\ eng[t].cvOutput = 0 /\ eng[t].cvOutputTarget = 0
            /\ eng[t].slideActive = FALSE
            /\ eng[t].gateQueue = <<>> /\ eng[t].cvQueue = <<>>
            /\ eng[t].recordHistory = <<>>

\* reset() was called on an engine in the middle of a step: gate high, events
\* pending, the cursor on a step
C9_Witness ==
    /\ obs.op = "reset" /\ mode[obs.track] = "Note"
    /\ obs.before.activity /\ obs.before.gateOutput
    /\ obs.before.gateQueue # <<>> /\ obs.before.cvQueue # <<>>
    /\ obs.before.currentStep >= 0
    /\ obs.before.cvOutputTarget # 0
    /\ obs.before.slideActive

\* C10: restart() leaves the queues, the outputs, prevCondition, the record
\* history and the sequence pointers as they were.
C10_RestartFrame ==
    \A t \in Tracks :
        (obs.op = "restart" /\ obs.track = t) =>
            /\ eng[t].gateQueue = obs.before.gateQueue
            /\ eng[t].activity = obs.before.activity
            /\ eng[t].gateOutput = obs.before.gateOutput
            /\ eng[t].cvOutput = obs.before.cvOutput
            /\ eng[t].cvOutputTarget = obs.before.cvOutputTarget
            /\ eng[t].sequence = obs.before.sequence
            /\ eng[t].fillSequence = obs.before.fillSequence
            /\ mode[t] = "Note" =>
                  /\ eng[t].cvQueue = obs.before.cvQueue
                  /\ eng[t].prevCondition = obs.before.prevCondition
                  /\ eng[t].recordHistory = obs.before.recordHistory

\* restart() was called with the gate high and events pending, and rewound
\* the cursor
C10_Witness ==
    /\ obs.op = "restart"
    /\ obs.before.currentStep >= 0 /\ eng[obs.track].currentStep = -1
    /\ eng[obs.track].gateQueue # <<>> /\ eng[obs.track].activity

\* the cursor one advance after SequenceState::reset()
firstAdvance(sequence) ==
    [step |-> IF sequence.runMode = "Forward" THEN sequence.firstStep
              ELSE sequence.lastStep,
     prevStep |-> -1, iteration |-> 0]

\* tick() of an unlinked Note engine ran reset() iff reset is due, and a reset
\* came before the advance and the trigger of that tick
resetsWhenDue(due(_, _)) ==
    \A t \in Tracks :
        (ticked(t) /\ mode[t] = "Note" /\ ~isLinked(t)) =>
            LET sequence == Sequence(t, eng[t].sequence)
            IN /\ eng[t].didReset <=> due(obs.tick, sequence.resetMeasure)
               /\ eng[t].didReset =>
                     /\ eng[t].didAdvance /\ eng[t].didTrigger
                     /\ eng[t].sequenceState = firstAdvance(sequence)

dueAsClaimed(tick, m) == m > 0 /\ tick % (m * MeasureDivisor) = 0

dueAtTickZero(tick, m) == IF m > 0 THEN tick % (m * MeasureDivisor) = 0 ELSE tick = 0

\* C11 as claimed: with resetMeasure = m > 0 tick(t) runs reset() exactly when
\* t mod (m * measureDivisor) = 0, before the advance and the trigger; with
\* resetMeasure = 0 no tick runs reset().
C11_ResetAtMeasure == resetsWhenDue(dueAsClaimed)

\* C11 amended: as claimed for resetMeasure > 0; with resetMeasure = 0 tick(t)
\* runs reset() exactly when t = 0.
C11_ResetAtMeasureOrTickZero == resetsWhenDue(dueAtTickZero)

\* the tick at the end of the first measure reset the engine on the pattern
\* with resetMeasure 1, then advanced and triggered
C11_Witness ==
    \E t \in Tracks :
        /\ ticked(t) /\ mode[t] = "Note" /\ obs.tick = MeasureDivisor
        /\ Sequence(t, eng[t].sequence).resetMeasure = 1
        /\ eng[t].didReset /\ eng[t].didTrigger
        /\ eng[t].sequenceState.prevStep = -1

\* the edges the retrigger loop leaves queued for n pulses from start: for
\* each k in 0..n-1 whose offset k * (divisor / n) does not exceed stepLength a
\* falling edge (divisor / n) / 2 after the offset, and a rising edge at the
\* offset unless that falling edge is due at the same tick
retriggerEdges(start, divisor, n, stepLength) ==
    LET retriggerLength == divisor \div n
        kept == {k \in 0..(n - 1) : k * retriggerLength <= stepLength}
    IN {[tick |-> start + k * retriggerLength + retriggerLength \div 2, gate |-> FALSE] :
            k \in kept}
       \cup (IF retriggerLength \div 2 > 0
             THEN {[tick |-> start + k * retriggerLength, gate |-> TRUE] : k \in kept}
             ELSE {})

\* the engine dequeued the edges of E due at tick, in the order of their
\* ticks, and holds the others
holdsEdges(e, E, tick) ==
    LET due == {x \in E : x.tick <= tick}
    IN /\ {e.gateQueue[i] : i \in 1..Len(e.gateQueue)} = E \ due
       /\ Len(e.gateQueue) = Cardinality(E \ due)
       /\ Len(e.sent) = Cardinality(due)
       /\ \A x \in due :
             e.sent[Cardinality({y \in due : y.tick < x.tick}) + 1] = x.gate

\* the inputs of the watched tick: the retrigger count, the step's length in
\* ticks and its start
seenDivisor == StepTicks(Sequence(obs.track, eng[obs.track].sequence).divisor)
seenRetrigger ==
    evalStepRetrigger(obs.in.step, obs.in.track.retriggerProbabilityBias,
                      obs.in.draws.retrigger)
seenStepLength ==
    (seenDivisor * evalStepLength(obs.in.step, obs.in.track.lengthBias,
                                  obs.in.draws.lengthProbability,
                                  obs.in.draws.lengthOffset)) \div LengthRange
seenStart == obs.tick + gateOffsetTicks(seenDivisor, obs.in.step.gateOffset)

\* a watched tick triggered a step with its gate on, on an empty gate queue,
\* without swing
firedOnEmptyQueue(t) ==
    /\ ticked(t) /\ mode[t] = "Note" /\ ~isLinked(t)
    /\ eng[t].didTrigger
    /\ (eng[t].didReset \/ obs.before.gateQueue = <<>>)
    /\ obs.in.step.gate /\ obs.in.step.condition.kind = "Off"
    /\ obs.in.step.gateProbability = ProbabilityRange - 1
    /\ obs.in.track.gateProbabilityBias = 0
    /\ obs.in.track.swing = 50

filledByGates(t) ==
    /\ ticked(t) /\ mode[t] = "Note" /\ eng[t].didTrigger
    /\ (eng[t].didReset \/ obs.before.gateQueue = <<>>)
    /\ obs.in.fill /\ obs.in.track.fillMode = "Gates"
    /\ obs.in.step.condition.kind = "Off"

\* the tick queued gate edges: it dequeued some or holds some
queuedEdges(t) == Len(eng[t].sent) + Len(eng[t].gateQueue) > 0

\* C13 as claimed: with fill active and fillMode Gates every triggered step
\* passes the gate test (and, having no condition, queues its gate), whatever
\* step.gate, the gate probability, the bias and the fill amount.
C13_FillGatesPass ==
    \A t \in Tracks : filledByGates(t) => queuedEdges(t)

\* C13 amended: with fill active, fillMode Gates and the fill draw below the
\* fill amount every triggered step passes the gate test, whatever step.gate,
\* the gate probability and the bias.
C13_FillGatesPassWithinAmount ==
    \A t \in Tracks :
        (filledByGates(t) /\ obs.in.draws.fill < obs.in.track.fillAmount) =>
            queuedEdges(t)

\* a step with its gate off was triggered under fill, with the fill draw
\* below the fill amount of 50, and queued its gate
C13_Witness ==
    \E t \in Tracks :
        /\ filledByGates(t) /\ ~obs.in.step.gate
        /\ obs.in.track.fillAmount = 50 /\ obs.in.draws.fill < 50
        /\ eng[t].sent = <<TRUE>> /\ Len(eng[t].gateQueue) = 1

\* ---------------------------------------------------------------------------
\* MidiCvTrack under its setters: every call is made with any of NoteArgs,
\* edits with any of EditArgs, at most MaxEdits calls after construction.

NoteArgs == {-2147483647, -1, 0, 5, 60, 127, 128, 300, 2147483647}
EditArgs == {-20, -1, 1, 20}

\* one call on the MidiCvTrack, leaving result
midiCvCall(op, result) ==
    /\ budget.ops > 0
    /\ budget' = [budget EXCEPT !.ops = @ - 1]
    /\ midiCvTrack' = result
    /\ obs' = [op |-> op, track |-> 0, tick |-> now, before |-> NoEngine]
    /\ UNCHANGED <<now, turn, mode, link, playMode, play, eng, transport>>

InitMidiCv ==
    /\ now = 0
    /\ turn = 0
    /\ budget = [ticks |-> 0, ops |-> MaxEdits]
    /\ mode = [t \in Tracks |-> "None"]
    /\ link = [t \in Tracks |-> -1]
    /\ playMode = [t \in Tracks |-> "Aligned"]
    /\ play = [t \in Tracks |-> [mute |-> FALSE, fill |-> FALSE]]
    /\ eng = [t \in Tracks |-> NoEngine]
    /\ obs = [op |-> "init", track |-> 0, tick |-> 0, before |-> NoEngine]
    /\ transport = Playing
    /\ \E raw \in Uninitialised : midiCvTrack = MidiCvTrackClear(raw)

NextMidiCv ==
    \/ midiCvCall("clear", MidiCvTrackClear(midiCvTrack))
    \/ \E v \in NoteArgs : midiCvCall("setVoices", setVoices(midiCvTrack, v))
    \/ \E v \in EditArgs : midiCvCall("editVoices", editVoices(midiCvTrack, v))
    \/ \E v \in NoteArgs : midiCvCall("setLowNote", setLowNote(midiCvTrack, v))
    \/ \E v \in EditArgs, shift \in BOOLEAN :
          midiCvCall("editLowNote", editLowNote(midiCvTrack, v, shift))
    \/ \E v \in NoteArgs : midiCvCall("setHighNote", setHighNote(midiCvTrack, v))
    \/ \E v \in EditArgs, shift \in BOOLEAN :
          midiCvCall("editHighNote", editHighNote(midiCvTrack, v, shift))
    \/ \E v \in NoteArgs : midiCvCall("setPitchBendRange", setPitchBendRange(midiCvTrack, v))
    \/ \E v \in EditArgs : midiCvCall("editPitchBendRange", editPitchBendRange(midiCvTrack, v))

SpecMidiCv == InitMidiCv /\ [][NextMidiCv]_vars

\* C18: after construction and any sequence of clear(), setVoices, setLowNote,
\* setHighNote, setPitchBendRange and their edit variants, with any integer
\* arguments, voices is in 1..8, 0 <= lowNote <= highNote <= 127 and
\* pitchBendRange is in 0..48.
C18_MidiCvTrackClamped ==
    /\ 1 <= midiCvTrack.voices /\ midiCvTrack.voices <= 8
    /\ 0 <= midiCvTrack.lowNote
    /\ midiCvTrack.lowNote <= midiCvTrack.highNote
    /\ midiCvTrack.highNote <= 127
    /\ 0 <= midiCvTrack.pitchBendRange /\ midiCvTrack.pitchBendRange <= 48

\* the range was narrowed to one note, and a low note above it was asked for
\* and came out as that note
C18_Witness ==
    /\ obs.op \in {"setLowNote", "editLowNote"}
    /\ budget.ops = 0
    /\ midiCvTrack.lowNote = midiCvTrack.highNote
    /\ midiCvTrack.highNote \in 1..126
    /\ midiCvTrack.voices = 8

\* ---------------------------------------------------------------------------
\* One Note track ticking in every run state of the transport.

\* the transport changes to tr
setTransport(op, tr) ==
    /\ budget.ops > 0
    /\ turn = 0
    /\ transport' = tr
    /\ budget' = [budget EXCEPT !.ops = @ - 1]
    /\ obs' = [op |-> op, track |-> 0, tick |-> now, before |-> NoEngine]
    /\ UNCHANGED <<now, turn, mode, link, playMode, play, eng, midiCvTrack>>

\* recording is switched on or off
ToggleRecordingStep ==
    setTransport("toggleRecording", [transport EXCEPT !.recording = ~@])

\* the clock is started or stopped
ToggleRunningStep ==
    setTransport("toggleRunning", [transport EXCEPT !.running = ~@])

RunStateDomain ==
    [steps |-> {PlainStep, [PlainStep EXCEPT !.gate = FALSE]},
     tracks |-> {PlainNoteTrack}, draws |-> {PlainDraws},
     curveSteps |-> {}, curveTracks |-> {}, curveDraws |-> {}]

InitRunState ==
    /\ InitEngines([starts |-> {0},
                    modes |-> {[t \in Tracks |-> IF t = 0 THEN "Note" ELSE "None"]},
                    links |-> {[t \in Tracks |-> -1]},
                    playModes |-> {"Aligned", "Free"},
                    plays |-> {[mute |-> FALSE, fill |-> FALSE]},
                    patterns |-> {0}])
    /\ transport \in Transports
    /\ \E raw \in Uninitialised : midiCvTrack = MidiCvTrackClear(raw)

NextRunState ==
    \/ NoteTickSeen(RunStateDomain)
    \/ ToggleRecordingStep
    \/ ToggleRunningStep
    \/ NoteRestartStep

SpecRunState == InitRunState /\ [][NextRunState]_vars

\* the last call was tick() on a Note track, seen with its inputs
tickSeen == obs.op = "tick" /\ obs.before # NoEngine

\* the transport of that call was recording in StepRecord mode
inRecordingStep ==
    obs.in.transport.recording /\ obs.in.transport.recordMode = "StepRecord"

\* that call came at a step boundary of its track
atStepBoundary ==
    LET sequence == Sequence(obs.track, obs.before.sequence)
        divisor == StepTicks(sequence.divisor)
        relativeTick == relativeTickOf(obs.tick, sequence.resetMeasure * MeasureDivisor)
    IN IF playMode[obs.track] = "Aligned"
       THEN relativeTick % divisor = 0
       ELSE relativeTick = 0 \/ obs.before.freeRelativeTick = 0

\* C15: while the engine records in StepRecord mode, tick() does not advance
\* the sequence cursor; in the other run states the cursor advances at every
\* step boundary.
C15_StepRecordFreezesCursor ==
    tickSeen =>
        IF inRecordingStep
        THEN ~eng[obs.track].didAdvance
        ELSE atStepBoundary => eng[obs.track].didAdvance

\* C15 as the code has it: in every run state, recording in StepRecord mode
\* included, tick() advances the cursor at every step boundary and only
\* there; what StepRecord mode switches off is recordStep().
C15_AdvancesInEveryRunState ==
    tickSeen =>
        LET e == eng[obs.track]
            sequence == Sequence(obs.track, obs.before.sequence)
        IN /\ e.didAdvance <=> atStepBoundary
           /\ e.didAdvance =>
                /\ e.sequenceState.step \in sequence.firstStep..sequence.lastStep
                /\ e.currentStep = e.sequenceState.step
           /\ inRecordingStep => ~e.didRecord

\* a tick() while recording in StepRecord mode moved the cursor from one step
\* of the sequence to the next
C15_Witness ==
    /\ tickSeen
    /\ inRecordingStep
    /\ obs.in.transport.running
    /\ obs.before.sequenceState.step >= 0
    /\ eng[obs.track].didAdvance
    /\ eng[obs.track].sequenceState.step = obs.before.sequenceState.step + 1

\* ---------------------------------------------------------------------------
\* One Note track under update(), the MIDI input and the record controls, in
\* any order, at most MaxCalls of them.

MaxCalls == 5

\* one call on the Note engine of track t, leaving e; in: what the call read
call(t, op, e, in) ==
    /\ budget.ops > 0
    /\ turn = 0
    /\ mode[t] = "Note"
    /\ eng' = [eng EXCEPT ![t] = e]
    /\ budget' = [budget EXCEPT !.ops = @ - 1]
    /\ obs' = [op |-> op, track |-> t, tick |-> now, before |-> eng[t], in |-> in]
    /\ UNCHANGED <<now, turn, mode, link, playMode, play, transport, midiCvTrack>>

UpdateStep(D, dts) ==
    \E t \in Tracks, step \in D.steps, trk \in D.tracks, dt \in dts :
        LET in == [transport |-> transport, track |-> trk, step |-> step, dt |-> dt]
        IN call(t, "update", NoteUpdate(eng[t], t, in, dt), in)

MonitorMidiStep(M) ==
    \E t \in Tracks, message \in M :
        call(t, "monitorMidi", monitorMidi(eng[t], t, transport, message),
             [transport |-> transport, message |-> message])

SetMonitorStepStep(I) ==
    \E t \in Tracks, index \in I :
        call(t, "setMonitorStep", setMonitorStep(eng[t], t, transport, index),
             [transport |-> transport, index |-> index])

RecordDomain ==
    [steps |-> {[PlainStep EXCEPT !.note = 12]},
     tracks |-> {PlainNoteTrack}, draws |-> {PlainDraws},
     curveSteps |-> {}, curveTracks |-> {}, curveDraws |-> {}]

RecordMessages == {[type |-> "NoteOn", note |-> 72], [type |-> "NoteOff", note |-> 72]}

InitRecord ==
    /\ InitEngines([starts |-> {0},
                    modes |-> {[t \in Tracks |-> IF t = 0 THEN "Note" ELSE "None"]},
                    links |-> {[t \in Tracks |-> -1]},
                    playModes |-> {"Aligned"},
                    plays |-> {[mute |-> FALSE, fill |-> FALSE]},
                    patterns |-> {0},
                    ops |-> MaxCalls])
    /\ transport \in {tr \in Transports : tr.recordMode # "Overwrite"}
    /\ \E raw \in Uninitialised : midiCvTrack = MidiCvTrackClear(raw)

NextRecord ==
    \/ UpdateStep(RecordDomain, {1})
    \/ MonitorMidiStep(RecordMessages)
    \/ SetMonitorStepStep({-1, 1, 5})
    \/ ToggleRecordingStep
    \/ ToggleRunningStep
    \/ ChangePatternStep

SpecRecord == InitRecord /\ [][NextRecord]_vars

\* the last call was update(); it applied a monitoring override exactly if
\* monitorOverrideActive is set after it
updated == obs.op = "update"

overrideApplied ==
    LET e == eng[obs.track]
    IN e.monitorOverrideActive /\ e.activity /\ e.gateOutput

\* C14: update() applies a monitoring override (activity and gateOutput forced
\* to true, cvOutputTarget replaced by the monitored note) only when the
\* engine is not running or not recording.
C14_OverrideNotWhileRecording ==
    updated /\ overrideApplied =>
        ~obs.in.transport.running \/ ~obs.in.transport.recording

\* C14 as the code has it: update() applies a monitoring override only when
\* the engine is not running or the record mode is not StepRecord, and the
\* step override only when the engine is not running; an override leaves
\* activity and gateOutput true, and without one the flag is clear.
C14_OverrideNotWhileStepRecording ==
    updated =>
        LET e == eng[obs.track]
            tr == obs.in.transport
        IN /\ e.monitorOverrideActive =>
                /\ ~tr.running \/ tr.recordMode # "StepRecord"
                /\ e.activity /\ e.gateOutput
                /\ \/ /\ ~tr.running
                      /\ e.monitorStepIndex >= 0
                      /\ e.cvOutputTarget = noteToVolts(obs.in.step.note)
                   \/ /\ isNoteActive(e.recordHistory)
                      /\ e.cvOutputTarget =
                            noteToVolts(noteFromMidiNote(activeNote(e.recordHistory)))
           /\ tr.running /\ tr.recordMode = "StepRecord" => ~e.monitorOverrideActive

\* a note is held and a step is pinned while the engine runs and records in
\* StepRecord mode: update() takes back the override of an earlier call
C14_Witness ==
    /\ updated
    /\ obs.in.transport.running
    /\ isStepRecording(obs.in.transport)
    /\ isNoteActive(eng[obs.track].recordHistory)
    /\ eng[obs.track].monitorStepIndex >= 0
    /\ obs.before.monitorOverrideActive
    /\ ~eng[obs.track].monitorOverrideActive
    /\ ~eng[obs.track].gateOutput

\* the last call was monitorMidi() with a note-on while recording in
\* StepRecord mode
noteOnRecorded ==
    /\ obs.op = "monitorMidi"
    /\ obs.in.message.type = "NoteOn"
    /\ isStepRecording(obs.in.transport)

\* C16: in StepRecord mode, however monitorMidi, update, setMonitorStep and
\* the toggling of recording interleave, each note-on is written to a step
\* within firstStep..lastStep of the current sequence and leaves
\* currentRecordStep at the next index, wrapping from lastStep to firstStep.
C16_NoteOnWrittenInRange ==
    noteOnRecorded =>
        LET e == eng[obs.track]
            sequence == Sequence(obs.track, e.sequence)
        IN /\ Len(e.wrote) = 1
           /\ e.wrote[1] \in sequence.firstStep..sequence.lastStep
           /\ e.currentRecordStep =
                IF e.wrote[1] = sequence.lastStep THEN sequence.firstStep ELSE e.wrote[1] + 1

\* C17: in every reachable state sequenceProgress() of a Curve engine is a
\* number in [0, 1]: the divisor lastStep - firstStep is not 0 where it is
\* used, and 0 <= currentStep - firstStep <= lastStep - firstStep.
C17_SequenceProgressInRange ==
    \A t \in Tracks :
        mode[t] = "Curve" =>
            LET progress == sequenceProgress(eng[t], t)
            IN progress.den > 0 /\ 0 <= progress.num /\ progress.num <= progress.den

\* ---------------------------------------------------------------------------
\* One Note track playing steps with and without slide, update() called
\* between the ticks with several slide times and frames of 0, 1 and 50
\* milliseconds, and a MIDI note that update() monitors.

\* slide times of 0, 50 and 100 (NoteTrack::slideTime is 0..100)
SlideDomain ==
    [steps |-> {[PlainStep EXCEPT !.slide = TRUE, !.note = 12],
                [PlainStep EXCEPT !.note = -7]},
     tracks |-> {[PlainNoteTrack EXCEPT !.slideTime = st] : st \in {0, 50, 100}},
     draws |-> {PlainDraws},
     curveSteps |-> {}, curveTracks |-> {}, curveDraws |-> {}]

InitSlide ==
    /\ InitEngines([starts |-> {0},
                    modes |-> {[t \in Tracks |-> IF t = 0 THEN "Note" ELSE "None"]},
                    links |-> {[t \in Tracks |-> -1]},
                    playModes |-> {"Aligned"},
                    plays |-> {[mute |-> FALSE, fill |-> FALSE]},
                    patterns |-> {0},
                    ops |-> MaxCalls])
    /\ transport = Playing
    /\ \E raw \in Uninitialised : midiCvTrack = MidiCvTrackClear(raw)

NextSlide ==
    \/ NoteTickStep(SlideDomain)
    \/ UpdateStep(SlideDomain, {0, 1, 50})
    \/ MonitorMidiStep(RecordMessages)

SpecSlide == InitSlide /\ [][NextSlide]_vars

WrapDomain ==
    [steps |-> { PlainStep,
                 [PlainStep EXCEPT !.length = LengthRange - 1],
                 [PlainStep EXCEPT !.gateOffset = 4, !.length = LengthRange - 1,
                                   !.note = 12] },
     tracks |-> {PlainNoteTrack}, draws |-> {PlainDraws},
     curveSteps |-> {}, curveTracks |-> {}, curveDraws |-> {}]

InitWrap ==
    InitWith([starts |-> {-4, -2},
              modes |-> {[t \in Tracks |-> IF t = 0 THEN "Note" ELSE "None"]},
              links |-> {[t \in Tracks |-> -1]},
              playModes |-> {"Aligned", "Free"},
              plays |-> {[mute |-> FALSE, fill |-> FALSE]},
              patterns |-> 0..(PatternCount - 1)])

NextWrap ==
    \/ NoteTickSeen(WrapDomain)
    \/ NoteRestartStep

SpecWrap == InitWrap /\ [][NextWrap]_vars

\* due tick d lies after tick t, as a comparison of the two relative to each
\* other (the sign of the 32-bit difference)
dueAfter(d, t) == d - t > 0

\* C20: around the wrap of the 32-bit tick counter no gate or CV event is
\* dequeued before its due tick, and a tick() call leaves no event in the
\* queues that is due: an event queued before the wrap and due after it waits
\* for the tick() call of its due tick.
C20_WrapSafe ==
    tickSeen =>
        LET e == eng[obs.track]
        IN /\ \A i \in 1..Len(e.sentTicks) : ~dueAfter(e.sentTicks[i], obs.tick)
           /\ \A i \in 1..Len(e.cvSentTicks) : ~dueAfter(e.cvSentTicks[i], obs.tick)
           /\ \A i \in 1..Len(e.gateQueue) : dueAfter(e.gateQueue[i].tick, obs.tick)
           /\ \A i \in 1..Len(e.cvQueue) : dueAfter(e.cvQueue[i].tick, obs.tick)

\* ------------------------------ one Note track, steps ahead of the beat

\* Steps nudged ahead by 7/8 or 1/8 of a step, on the beat, or late by 3/8;
\* the engine plays pattern 0 (4 ticks per step) or pattern 3 (24 ticks).
NextOffset ==
    \/ NoteTickSeen([steps |-> { [PlainStep EXCEPT !.gateOffset = o] :
                                    o \in {-GateOffsetMax, -1, 0, 3} },
                     tracks |-> {PlainNoteTrack}, draws |-> {PlainDraws},
                     curveSteps |-> {}, curveTracks |-> {}, curveDraws |-> {}])
    \/ NoteResetStep

SpecOffset == InitRetrigger /\ [][NextOffset]_vars

\* the ticks of the rising edges and of the CV events that the watched tick
\* dequeued or left pending
seenRises(t) ==
    {eng[t].sentTicks[i] : i \in {j \in 1..Len(eng[t].sent) : eng[t].sent[j]}}
    \cup {eng[t].gateQueue[i].tick :
            i \in {j \in 1..Len(eng[t].gateQueue) : eng[t].gateQueue[j].gate}}
seenCvs(t) ==
    {eng[t].cvSentTicks[i] : i \in 1..Len(eng[t].cvSentTicks)}
    \cup {eng[t].cvQueue[i].tick : i \in 1..Len(eng[t].cvQueue)}

\* x lies before tick, by at most divisor
earlierWithin(x, tick, divisor) == U32Less(x, tick) /\ ~U32Less(x, tick - divisor)

\* C21: a step with a negative gateOffset whose offset in ticks is at least
\* one tick, fired a whole step after tick 0, queues its rising edge and its
\* CV event at a tick earlier than the step's tick, by at most one divisor.
C21_NegativeOffsetEarlier ==
    \A t \in Tracks :
        ( /\ firedOnEmptyQueue(t) /\ seenRetrigger = 1
          /\ obs.in.step.gateOffset < 0
          /\ seenDivisor * (-obs.in.step.gateOffset) >= GateOffsetMax + 1
          /\ obs.tick >= seenDivisor ) =>
            /\ \E x \in seenRises(t) : earlierWithin(x, obs.tick, seenDivisor)
            /\ \E x \in seenCvs(t) : earlierWithin(x, obs.tick, seenDivisor)

\* ------------------------------- one Note track, steps of varied length

\* Steps of the shortest, a middle and the full length, whose length varies
\* never, or always by up to 8 eighths less or by up to 3 eighths more. Tracks
\* with a length bias of -2, 0 and 6. Draws: the offset draw 2 and 8.
NextLength ==
    \/ NoteTickSeen([steps |-> { [PlainStep EXCEPT !.length = l,
                                     !.lengthVariationRange = v[1],
                                     !.lengthVariationProbability = v[2]] :
                                    l \in {0, 3, LengthRange - 1},
                                    v \in {<<0, 0>>, <<-8, ProbabilityRange - 1>>,
                                           <<3, ProbabilityRange - 1>>} },
                     tracks |-> { [PlainNoteTrack EXCEPT !.lengthBias = b] :
                                    b \in {-2, 0, 6} },
                     draws |-> { [PlainDraws EXCEPT !.lengthOffset = o] : o \in {2, 8} },
                     curveSteps |-> {}, curveTracks |-> {}, curveDraws |-> {}])
    \/ NoteResetStep

SpecLength == InitRetrigger /\ [][NextLength]_vars

\* the ticks of the falling edges that the watched tick dequeued or left
\* pending
seenFalls(t) ==
    {eng[t].sentTicks[i] : i \in {j \in 1..Len(eng[t].sent) : ~eng[t].sent[j]}}
    \cup {eng[t].gateQueue[i].tick :
            i \in {j \in 1..Len(eng[t].gateQueue) : ~eng[t].gateQueue[j].gate}}

\* the length variation of the watched tick applied, and its signed offset
seenVaried == obs.in.draws.lengthProbability <= obs.in.step.lengthVariationProbability
seenLengthOffset ==
    LET range == obs.in.step.lengthVariationRange
        offset == IF range = 0 THEN 0
                  ELSE obs.in.draws.lengthOffset % ((IF range < 0 THEN -range ELSE range) + 1)
    IN IF range < 0 THEN -offset ELSE offset

\* a watched tick fired one gate, on the beat, on an empty queue
firedPlain(t) == firedOnEmptyQueue(t) /\ seenRetrigger = 1 /\ obs.in.step.gateOffset = 0

\* C22 as claimed: when the length variation does not apply, the gate length
\* in ticks of a fired step is
\* (divisor * clamp(step.length + lengthBias, 0, Range)) / Range.
C22_GateLengthFromZero ==
    \A t \in Tracks :
        (firedPlain(t) /\ ~seenVaried) =>
            seenFalls(t) =
                {obs.tick + (seenDivisor * Max(0, Min(obs.in.step.length
                                                      + obs.in.track.lengthBias,
                                                      LengthRange))) \div LengthRange}

\* C22 amended: when the length variation does not apply, the gate length in
\* ticks of a fired step is
\* (divisor * (clamp(step.length + lengthBias, 0, Max) + 1)) / Range; with
\* variation that length plus the signed offset is clamped to [0, Range]
\* before the conversion; the gate length never exceeds divisor.
C22_GateLength ==
    \A t \in Tracks :
        firedPlain(t) =>
            LET base == Max(0, Min(obs.in.step.length + obs.in.track.lengthBias,
                                   LengthRange - 1)) + 1
                length == IF seenVaried
                          THEN Max(0, Min(base + seenLengthOffset, LengthRange))
                          ELSE base
            IN /\ seenFalls(t) = {obs.tick + (seenDivisor * length) \div LengthRange}
               /\ \A x \in seenFalls(t) : x - obs.tick \in 0..seenDivisor

\* length 3 with bias 6 plays the full step of 24 ticks; varied by 2 more
\* eighths it still ends with the step
C22_Witness ==
    \E t \in Tracks :
        /\ firedPlain(t) /\ seenVaried /\ seenLengthOffset = 2
        /\ obs.in.step.length = 3 /\ obs.in.track.lengthBias = 6
        /\ seenDivisor = 24 /\ obs.tick = 0
        /\ eng[t].gateQueue = << [tick |-> 24, gate |-> FALSE] >>

\* ------------------------------------- the step evaluations, one at a time

\* one evaluation of a static function of the engines, leaving its arguments
\* and its result
Eval(op, in, out) ==
    /\ budget' = [budget EXCEPT !.ops = @ - 1]
    /\ obs' = [op |-> op, track |-> 0, tick |-> now, before |-> NoEngine,
               in |-> in, out |-> out]
    /\ UNCHANGED <<now, turn, mode, link, playMode, play, eng, transport, midiCvTrack>>

InitEval ==
    InitWith([starts |-> {0},
              modes |-> {[t \in Tracks |-> IF t = 0 THEN m ELSE "None"] :
                            m \in {"Note", "Curve"}},
              links |-> {[t \in Tracks |-> -1]},
              playModes |-> {"Aligned"},
              plays |-> {[mute |-> FALSE, fill |-> FALSE]},
              patterns |-> {0},
              ops |-> 1])

\* Every probability from its lowest to its highest value, with biases that
\* leave it, move it by one and push it beyond either end, and every sample
\* the random generator can return.
NextEval ==
    \/ budget.ops > 0 /\
       \E gate \in BOOLEAN, p \in 0..(ProbabilityRange - 1), bias \in {-8, -1, 0, 1, 8},
          draw \in 0..(ProbabilityRange - 1) :
          LET step == [PlainStep EXCEPT !.gate = gate, !.gateProbability = p]
          IN Eval("evalStepGate", [step |-> step, probabilityBias |-> bias, draw |-> draw],
                  evalStepGate(step, bias, draw))
    \/ budget.ops > 0 /\
       \E c \in {Off, Loop(2, 0), Loop(3, 1), Loop(4, 3)} \cup
                { [kind |-> k, base |-> 1, offset |-> 0] :
                     k \in {"Fill", "NotFill", "Pre", "NotPre", "First", "NotFirst"} },
          iteration \in 0..4, fill \in BOOLEAN, prevCondition \in BOOLEAN :
          LET step == [PlainStep EXCEPT !.condition = c]
          IN Eval("evalStepCondition",
                  [step |-> step, iteration |-> iteration, fill |-> fill,
                   prevCondition |-> prevCondition],
                  evalStepCondition(step, iteration, fill, prevCondition))
    \/ budget.ops > 0 /\
       \E r \in {1, 3}, p \in 0..(ProbabilityRange - 1), bias \in {-8, -1, 0, 1, 8},
          draw \in 0..(ProbabilityRange - 1) :
          LET step == [PlainStep EXCEPT !.retrigger = r, !.retriggerProbability = p]
          IN Eval("evalStepRetrigger",
                  [step |-> step, probabilityBias |-> bias, draw |-> draw],
                  evalStepRetrigger(step, bias, draw))
    \/ budget.ops > 0 /\
       \E l \in {0, 3, 6}, r \in {-2, 0, 3}, p \in 0..(ProbabilityRange - 1),
          draw \in 0..(ProbabilityRange - 1), offset \in {0, 1, 2} :
          LET step == [PlainStep EXCEPT !.length = l, !.lengthVariationRange = r,
                                        !.lengthVariationProbability = p]
          IN Eval("evalStepLength",
                  [step |-> step, lengthBias |-> 0, draw |-> draw, drawOffset |-> offset],
                  evalStepLength(step, 0, draw, offset))
    \/ budget.ops > 0 /\
       \E n \in {NoteMin, 0, NoteMax}, r \in {-3, 0, 5}, p \in {0, 3, ProbabilityRange - 1},
          bias \in {-8, 0, 8}, octave \in {-1, 0, 1}, useVariation \in BOOLEAN,
          draw \in 0..(ProbabilityRange - 1), offset \in {1, 4} :
          LET step == [PlainStep EXCEPT !.note = n, !.noteVariationRange = r,
                                        !.noteVariationProbability = p]
          IN Eval("evalStepNote",
                  [step |-> step, probabilityBias |-> bias, rootNote |-> 0,
                   octave |-> octave, transpose |-> 0, useVariation |-> useVariation,
                   draw |-> draw, drawOffset |-> offset],
                  evalStepNote(step, bias, 0, octave, 0, useVariation, draw, offset))
    \/ budget.ops > 0 /\
       \E p \in 0..8, bias \in {-8, -1, 0, 1, 8}, draw \in 0..(CurveProbabilityRange - 1) :
          LET step == [PlainCurveStep EXCEPT !.shapeVariationProbability = p]
          IN Eval("evalShapeVariation",
                  [step |-> step, probabilityBias |-> bias, draw |-> draw],
                  evalShapeVariation(step, bias, draw))
    \/ budget.ops > 0 /\
       \E p \in 0..(CurveProbabilityRange - 1), bias \in {-8, -1, 0, 1, 8},
          draw \in 0..(CurveProbabilityRange - 1) :
          LET step == [PlainCurveStep EXCEPT !.gateProbability = p]
          IN Eval("evalGate", [step |-> step, probabilityBias |-> bias, draw |-> draw],
                  evalGate(step, bias, draw))
    \/ budget.ops > 0 /\
       \E a \in 0..7, tick \in {4, 8}, prevStep \in {-1, 1}, selected \in BOOLEAN,
          tr \in Transports :
          \E h \in { <<>>,
                     << [tick |-> a, type |-> "NoteOn", note |-> 60] >>,
                     << [tick |-> a, type |-> "NoteOn", note |-> 60],
                        [tick |-> a + 1, type |-> "NoteOff", note |-> 60] >>,
                     << [tick |-> a, type |-> "NoteOn", note |-> 60],
                        [tick |-> a + 1, type |-> "NoteOff", note |-> 60],
                        [tick |-> a + 1, type |-> "NoteOn", note |-> 62] >> } :
             /\ \A i \in 1..Len(h) : h[i].tick <= tick
             /\ Eval("recordStep",
                     [history |-> h, tick |-> tick, divisor |-> 4, prevStep |-> prevStep,
                      step |-> [PlainStep EXCEPT !.gate = FALSE], selected |-> selected,
                      transport |-> tr],
                     recordStep(h, tick, 4, prevStep, [PlainStep EXCEPT !.gate = FALSE],
                                selected, tr))

SpecEval == InitEval /\ [][NextEval]_vars

\* C23: the note index that evalStepNote converts to volts lies in Note.Range
\* (NoteMin..NoteMax), for every step note, octave and variation outcome, also
\* when the note variation does not apply.
C23_NoteClamped ==
    obs.op = "evalStepNote" =>
        obs.out \in {noteToVolts(n) : n \in NoteMin..NoteMax}

\* C24: evalStepCondition leaves prevCondition unchanged for the conditions
\* Off, Pre and NotPre (Off returns true, Pre returns prevCondition, NotPre
\* its negation); for Fill, NotFill, First, NotFirst and Loop(base, offset) it
\* sets prevCondition to the returned result, and Loop returns true exactly
\* when iteration mod base = offset.
C24_ConditionFrame ==
    obs.op = "evalStepCondition" =>
        LET c == obs.in.step.condition
            prev == obs.in.prevCondition
        IN /\ c.kind \in {"Off", "Pre", "NotPre"} => obs.out.prevCondition = prev
           /\ c.kind = "Off" => obs.out.result
           /\ c.kind = "Pre" => obs.out.result = prev
           /\ c.kind = "NotPre" => obs.out.result = ~prev
           /\ c.kind \in {"Fill", "NotFill", "First", "NotFirst", "Loop"} =>
                 obs.out.prevCondition = obs.out.result
           /\ c.kind = "Loop" =>
                 obs.out.result = (obs.in.iteration % c.base = c.offset)

\* Loop(3, 1) at iteration 4 turns a false prevCondition true
C24_Witness ==
    /\ obs.op = "evalStepCondition"
    /\ obs.in.step.condition = Loop(3, 1) /\ obs.in.iteration = 4
    /\ ~obs.in.prevCondition
    /\ obs.out = [result |-> TRUE, prevCondition |-> TRUE]

\* the watched evaluation was a probability test that the result tells from
\* its failure, and the test passed
seenTest ==
    CASE obs.op = "evalStepGate" -> obs.in.step.gate
      [] obs.op = "evalStepRetrigger" -> obs.in.step.retrigger > 0
      [] obs.op = "evalStepLength" ->
            LET r == obs.in.step.lengthVariationRange
            IN r # 0 /\ obs.in.drawOffset % ((IF r < 0 THEN -r ELSE r) + 1) # 0
      [] obs.op = "evalStepNote" ->
            LET r == obs.in.step.noteVariationRange
                offset == IF r = 0 THEN 0
                          ELSE obs.in.drawOffset % ((IF r < 0 THEN -r ELSE r) + 1)
                note == obs.in.step.note + obs.in.octave * NotesPerOctave
            IN /\ obs.in.useVariation
               /\ Max(NoteMin, Min(note + (IF r < 0 THEN -offset ELSE offset), NoteMax)) # note
      [] obs.op \in {"evalGate", "evalShapeVariation"} -> TRUE
      [] OTHER -> FALSE
seenPass ==
    CASE obs.op = "evalStepRetrigger" -> obs.out = obs.in.step.retrigger + 1
      [] obs.op = "evalStepLength" -> obs.out # obs.in.step.length + 1
      [] obs.op = "evalStepNote" ->
            obs.out # noteToVolts(obs.in.step.note + obs.in.octave * NotesPerOctave)
      [] OTHER -> obs.out

\* the effective value of the probability of the watched test, after bias and
\* clamping
seenProbability ==
    CASE obs.op = "evalStepGate" ->
            Max(-1, Min(obs.in.step.gateProbability + obs.in.probabilityBias,
                        ProbabilityRange - 1))
      [] obs.op = "evalStepRetrigger" ->
            Max(-1, Min(obs.in.step.retriggerProbability + obs.in.probabilityBias,
                        ProbabilityRange - 1))
      [] obs.op = "evalStepLength" -> obs.in.step.lengthVariationProbability
      [] obs.op = "evalStepNote" ->
            Max(-1, Min(obs.in.step.noteVariationProbability + obs.in.probabilityBias,
                        ProbabilityRange - 1))
      [] obs.op = "evalGate" ->
            Max(-1, Min(obs.in.step.gateProbability + obs.in.probabilityBias,
                        CurveProbabilityRange - 1))
      [] OTHER ->
            Max(0, Min(obs.in.step.shapeVariationProbability + obs.in.probabilityBias, 8))

\* C25 as claimed: for every probability test of the engines, with effective
\* value p, the samples that pass are the p + 1 samples 0..p of the Range
\* samples.
C25_PassesWithinP ==
    seenTest => (seenPass <=> obs.in.draw \in 0..seenProbability)

\* C25 amended: for the note gate, retrigger, length variation, note variation
\* and curve gate tests, with effective value p in -1..Max, the samples that
\* pass are the p + 1 samples 0..p; for the curve shape variation test, with
\* effective value p in 0..8, they are the p samples 0..p-1.
C25_PassesByTest ==
    seenTest =>
        /\ obs.op # "evalShapeVariation" =>
              /\ seenProbability \in -1..(ProbabilityRange - 1)
              /\ seenPass <=> obs.in.draw \in 0..seenProbability
        /\ obs.op = "evalShapeVariation" =>
              /\ seenProbability \in 0..8
              /\ seenPass <=> obs.in.draw \in 0..(seenProbability - 1)

\* a shape variation probability of 3 with bias 1 passes the sample 3, the
\* highest of the four samples that pass
C25_Witness ==
    /\ obs.op = "evalShapeVariation"
    /\ obs.in.step.shapeVariationProbability = 3 /\ obs.in.probabilityBias = 1
    /\ obs.in.draw = 3 /\ obs.out

\* the watched call of recordStep got past its first test
seenRecordStep ==
    /\ obs.op = "recordStep"
    /\ obs.in.transport.recording /\ obs.in.transport.recordMode # "StepRecord"
    /\ obs.in.prevStep >= 0

\* the note-ons of the history whose timestamp lies within margin of the
\* previous step's start
seenMatches ==
    LET h == obs.in.history
        stepStart == obs.in.tick - obs.in.divisor
        margin == obs.in.divisor \div 2
    IN {i \in 1..Len(h) : /\ h[i].type = "NoteOn"
                          /\ h[i].tick >= stepStart - margin
                          /\ h[i].tick < stepStart + margin}

\* C26: recordStep, recording in a mode other than StepRecord with
\* prevStep >= 0, writes prevStep whenever a recorded note-on lies within
\* margin = divisor / 2 of the previous step's start, also at the first step
\* boundary after tick 0, where the previous step started at tick 0.
C26_WindowAtEveryBoundary ==
    (seenRecordStep /\ seenMatches # {}) => obs.out.written

\* C27: when note-ons match the previous step's window and recordStep writes
\* the step, the step ends up holding the first matching note, with gate on,
\* the four probabilities at Max and condition Off; when recordStep writes
\* nothing, the step is cleared if the track is selected and the mode is
\* Overwrite, and left unchanged otherwise.
C27_FirstMatchWritten ==
    seenRecordStep =>
        /\ (obs.out.written /\ seenMatches # {}) =>
              LET first == CHOOSE i \in seenMatches : \A j \in seenMatches : i <= j
              IN /\ obs.out.step.note = noteFromMidiNote(obs.in.history[first].note)
                 /\ obs.out.step.gate
                 /\ obs.out.step.gateProbability = ProbabilityRange - 1
                 /\ obs.out.step.retriggerProbability = ProbabilityRange - 1
                 /\ obs.out.step.lengthVariationProbability = ProbabilityRange - 1
                 /\ obs.out.step.noteVariationProbability = ProbabilityRange - 1
                 /\ obs.out.step.condition = Off
        /\ ~obs.out.written =>
              /\ obs.out.cleared =
                    (obs.in.selected /\ obs.in.transport.recordMode = "Overwrite")
              /\ obs.out.step = obs.in.step

\* ------------------------------------------- one Curve track, fill pressed

\* Steps: a ramp up over the whole range whose variation, a ramp down, never
\* applies; a high level between 50 and 200 whose variation, a low level,
\* always applies. Tracks: every fill mode with the fill amount at 100, and
\* fill mode Variation with the fill amount at 50. Draws: the fill draw
\* (0..99) below or above a fill amount of 50.
NextCurveFill ==
    \/ CurveTickCall(
          [steps |-> {}, tracks |-> {}, draws |-> {},
           curveSteps |-> { PlainCurveStep,
                            [PlainCurveStep EXCEPT !.shape = "High",
                                !.shapeVariation = "Low",
                                !.shapeVariationProbability = 8,
                                !.min = 50, !.max = 200] },
           curveTracks |-> { [PlainCurveTrack EXCEPT !.fillMode = fm] :
                               fm \in {"None", "Variation", "NextPattern", "Invert"} }
                           \cup {[PlainCurveTrack EXCEPT !.fillMode = "Variation",
                                                         !.fillAmount = 50]},
           curveDraws |-> { [PlainCurveDraws EXCEPT !.fill = f] : f \in {0, 70} }],
          TRUE)
    \/ SetPlayStep

SpecCurveFill == Init /\ [][NextCurveFill]_vars

\* a watched tick of the Curve engine of track t computed the CV output
curveOutputSeen(t) ==
    /\ ticked(t) /\ mode[t] = "Curve" /\ obs.before # NoEngine
    /\ eng[t].sequenceState.step >= 0

\* the CV output target of track t is the value at the current step fraction
\* of the given shape of step, inverted or not, between step.min and step.max
outputIs(t, step, shape, invert) ==
    LET num == eng[t].currentStepFraction.num
        den == eng[t].currentStepFraction.den
        f == curveFunction(shape, num, den)
        value == IF invert THEN den - f ELSE f
        out == eng[t].cvOutputTarget
    IN /\ out.den = CurveValueMax * den
       /\ out.num = step.min * den + value * (step.max - step.min)
       /\ out.num >= Min(step.min, step.max) * den
       /\ out.num <= Max(step.min, step.max) * den

\* the variation test of the step that was last triggered passed
seenVariation(t) ==
    IF eng[t].didTrigger
    THEN obs.in.draws.shape < Max(0, Min(obs.in.step.shapeVariationProbability
                                         + obs.in.track.shapeProbabilityBias, 8))
    ELSE obs.before.shapeVariation

\* C28 as claimed: at every tick the shape used for the CV output is
\* step.shapeVariation if the step's variation test passed or fill is active
\* with fillMode = Variation, and step.shape otherwise; the value is inverted
\* exactly when fill is active with fillMode = Invert; the step is read from
\* the next pattern exactly when fill is active with fillMode = NextPattern;
\* the output lies between the step's min and max.
C28_ShapeByFill ==
    \A t \in Tracks :
        curveOutputSeen(t) =>
            LET fillMode == IF obs.in.fill THEN obs.in.track.fillMode ELSE "None"
                step == IF fillMode = "NextPattern" THEN obs.in.fillStepData ELSE obs.in.step
            IN outputIs(t, step,
                        IF seenVariation(t) \/ fillMode = "Variation"
                        THEN step.shapeVariation ELSE step.shape,
                        fillMode = "Invert")

\* C28 amended: the same with the fill mode that the last triggerStep
\* latched in the place of "fill is active with fillMode": the track's
\* fillMode if at that trigger fill was pressed and the fill draw was below the
\* fill amount, None otherwise.
C28_ShapeByLatchedFill ==
    \A t \in Tracks :
        curveOutputSeen(t) =>
            LET fillMode == IF eng[t].didTrigger
                            THEN IF /\ obs.in.fill
                                    /\ obs.in.draws.fill < obs.in.track.fillAmount
                                 THEN obs.in.track.fillMode ELSE "None"
                            ELSE obs.before.fillMode
                step == IF fillMode = "NextPattern" THEN obs.in.fillStepData ELSE obs.in.step
            IN outputIs(t, step,
                        IF seenVariation(t) \/ fillMode = "Variation"
                        THEN step.shapeVariation ELSE step.shape,
                        fillMode = "Invert")

\* fill was released after the step was triggered with fill mode Invert: one
\* tick into the step the ramp up still comes out inverted, at 3/4 of the range
C28_Witness ==
    \E t \in Tracks :
        /\ curveOutputSeen(t) /\ ~eng[t].didTrigger /\ ~obs.in.fill
        /\ obs.before.fillMode = "Invert"
        /\ obs.in.step = PlainCurveStep
        /\ eng[t].currentStepFraction = [num |-> 1, den |-> 4]
        /\ eng[t].cvOutputTarget = [num |-> 3 * CurveValueMax, den |-> 4 * CurveValueMax]

\* ------------------------------------- one Note track, conditional steps

\* Steps with their gate on or off and the lowest or the highest gate
\* probability, under the conditions Off, Fill, NotFill, Pre and NotPre.
\* Tracks: fill by gates or by condition. Draws: the gate draw within or
\* above the lowest gate probability.
NextCondition ==
    \/ NoteTickSeen([steps |-> { [PlainStep EXCEPT !.gate = g, !.gateProbability = p,
                                     !.condition = [kind |-> k, base |-> 1, offset |-> 0]] :
                                    g \in BOOLEAN, p \in {0, ProbabilityRange - 1},
                                    k \in {"Off", "Fill", "NotFill", "Pre", "NotPre"} },
                     tracks |-> { [PlainNoteTrack EXCEPT !.fillMode = fm] :
                                    fm \in {"Gates", "Condition"} },
                     draws |-> { [PlainDraws EXCEPT !.gate = g] : g \in {0, 5} },
                     curveSteps |-> {}, curveTracks |-> {}, curveDraws |-> {}])
    \/ SetPlayStep

SpecCondition == InitFill /\ [][NextCondition]_vars

\* a watched tick triggered a step, and the step passed the gate test: its
\* gate is on and the gate draw is within its probability, or fill gates apply
seenTrigger(t) == ticked(t) /\ mode[t] = "Note" /\ obs.before # NoEngine /\ eng[t].didTrigger
seenGateTest ==
    \/ /\ obs.in.step.gate
       /\ obs.in.draws.gate <= Max(-1, Min(obs.in.step.gateProbability
                                           + obs.in.track.gateProbabilityBias,
                                           ProbabilityRange - 1))
    \/ /\ obs.in.fill /\ obs.in.draws.fill < obs.in.track.fillAmount
       /\ obs.in.track.fillMode = "Gates"

\* prevCondition and the gate queue of the engine when triggerStep was called
\* (after the reset if the tick reset the engine)
seenPrevCondition(t) == IF eng[t].didReset THEN FALSE ELSE obs.before.prevCondition
seenGateQueue(t) == IF eng[t].didReset THEN <<>> ELSE obs.before.gateQueue

\* C29: when a triggered step fails the gate test (its gate is off or its
\* probability test fails, and fill gates do not apply), prevCondition is left
\* unchanged and no gate event is queued; a Pre or NotPre step that passes the
\* gate test fires exactly when prevCondition, so left by the last condition
\* evaluated on a step whose gate passed, is true or false.
C29_ConditionAfterGate ==
    \A t \in Tracks :
        seenTrigger(t) =>
            /\ ~seenGateTest =>
                  /\ eng[t].prevCondition = seenPrevCondition(t)
                  /\ Len(eng[t].sent) + Len(eng[t].gateQueue) = Len(seenGateQueue(t))
                  /\ \A i \in 1..Len(eng[t].gateQueue) :
                        eng[t].gateQueue[i] = seenGateQueue(t)[Len(eng[t].sent) + i]
            /\ (seenGateTest /\ obs.in.step.condition.kind \in {"Pre", "NotPre"}) =>
                  /\ eng[t].prevCondition = seenPrevCondition(t)
                  /\ (Len(eng[t].sent) + Len(eng[t].gateQueue) > Len(seenGateQueue(t)))
                        = (seenPrevCondition(t) = (obs.in.step.condition.kind = "Pre"))

\* prevCondition was true; a step with its gate off and the condition Fill
\* was triggered without fill: the condition, false if evaluated, was not, and
\* prevCondition is still true
C29_Witness ==
    \E t \in Tracks :
        /\ seenTrigger(t) /\ ~seenGateTest /\ ~eng[t].didReset
        /\ obs.before.prevCondition
        /\ obs.in.step.condition.kind = "Fill" /\ ~obs.in.fill
        /\ eng[t].prevCondition

\* --------------------------- one Note track that keeps receiving its ticks

\* Steps of the shortest, a middle and the full length, plain or with three
\* pulses, on the beat or late by 3/8 of a step; the engine plays pattern 0
\* (4 ticks per step) or pattern 3 (24 ticks).
NextLive ==
    NoteTickSeen([steps |-> { [PlainStep EXCEPT !.retrigger = r, !.length = l,
                                  !.gateOffset = o] :
                                 r \in {0, 2}, l \in {0, 3, LengthRange - 1}, o \in {0, 3} },
                  tracks |-> {PlainNoteTrack}, draws |-> {PlainDraws},
                  curveSteps |-> {}, curveTracks |-> {}, curveDraws |-> {}])

\* The clock delivers every tick: it moves on as long as ticks are left, and
\* each of its steps is a tick of the engine.
SpecLive ==
    InitRetrigger /\ [][NextLive]_vars /\ WF_now(budget.ticks > 0 /\ now' = now + 1)

\* the last gate event that the watched tick dequeued was a rising edge, and a
\* falling edge is pending for one of the ticks still to come
risen(t) ==
    /\ ticked(t) /\ mode[t] = "Note"
    /\ Len(eng[t].sent) > 0 /\ eng[t].sent[Len(eng[t].sent)]
    /\ \E i \in 1..Len(eng[t].gateQueue) :
          /\ ~eng[t].gateQueue[i].gate
          /\ eng[t].gateQueue[i].tick < now + budget.ticks

\* the last gate event that the watched tick dequeued was a falling edge
fallen(t) ==
    /\ ticked(t) /\ mode[t] = "Note"
    /\ Len(eng[t].sent) > 0 /\ ~eng[t].sent[Len(eng[t].sent)]
    /\ ~eng[t].activity

\* the watched tick dequeued a rising edge while the gate was high, with no
\* falling edge ahead of it (a following step had put its rising edge in the
\* place of the pending falling edge), and a falling edge is pending
tied(t) ==
    /\ ticked(t) /\ mode[t] = "Note" /\ obs.before # NoEngine
    /\ obs.before.activity
    /\ Len(eng[t].sent) > 0 /\ eng[t].sent[1]
    /\ eng[t].activity
    /\ \E i \in 1..Len(eng[t].gateQueue) : ~eng[t].gateQueue[i].gate

====
